---- MODULE Spec2Model ----
(***************************************************************************)
(* Model of the password-manager core:                                     *)
(*   - the crypto functions (deriveKey, encrypt, decrypt, extractSalt),    *)
(*   - the VaultManager session (create, unlock, save, changePassword,     *)
(*     update, lock), with its suspension points at key derivation,        *)
(*   - the S3Client retry loop around download and upload,                 *)
(*   - the vault API that issues pre-signed URLs, with clients writing     *)
(*     through them.                                                       *)
(*                                                                         *)
(* Byte arrays are sequences of cells.  Version, salt, nonce and           *)
(* ciphertext cells are numbers.  The external primitives are ideal:       *)
(* Argon2id is an injective encoding of (password, salt) and the Poly1305  *)
(* tag is the symbolic value <<key, nonce, ciphertext>>, so that a tag     *)
(* verifies exactly for the key, nonce and ciphertext it was made from.    *)
(***************************************************************************)
EXTENDS Integers, Sequences, FiniteSets, TLC

VARIABLES
    \* ---- crypto functions applied to bounded inputs
    cin,        \* the arguments, the random draws and the result of the last encrypt call
    cblob,      \* the blob under test (the result of encrypt, possibly altered)
    cres,       \* the result of the last function applied to cblob
    cfn,        \* that function and its key or password argument
    \* ---- VaultManager
    derivedKey, \* this.derivedKey: a buffer reference or NULL
    salt,       \* this.salt: a buffer reference or NULL
    isLocked,   \* this.isLocked
    heap,       \* the byte arrays allocated so far (reference -> cells)
    calls,      \* the async calls in flight (slot -> frame)
    vault,      \* the blob the caller keeps (the last one returned)
    nSalts,     \* random salts drawn so far
    nNonces,    \* random nonces drawn so far
    nOps,       \* calls started so far
    last,       \* the event of the last step (history)
    notes,      \* what the caller of a sequence of calls keeps track of (history)
    \* ---- S3Client
    maxRetries, \* this.maxRetries
    s3,         \* the download / upload calls (slot -> frame)
    store,      \* the remote object: its entity tag
    \* ---- vault API and its clients
    bucket,     \* the objects under the vaults/ prefix (key -> object)
    api         \* the clients: URL request and upload (client -> frame)

cryptoVars == <<cin, cblob, cres, cfn>>
vaultVars  == <<derivedKey, salt, isLocked, heap, calls, vault, nSalts, nNonces, nOps, last,
               notes>>
s3Vars     == <<maxRetries, s3, store>>
apiVars    == <<bucket, api>>
vars       == <<cryptoVars, vaultVars, s3Vars, apiVars>>

NULL == 0

(***************************************************************************)
(* Program constants                                                       *)
(***************************************************************************)
VERSION_BYTE_LENGTH == 1
SALT_LENGTH == 16
NONCE_LENGTH == 24
TAG_LENGTH == 16
CURRENT_VERSION == 1
ARGON2_KEY_LENGTH == 32
MIN_PASSWORD_LENGTH == 8
MIN_VAULT_LENGTH == 57

(***************************************************************************)
(* Bounds of the model                                                     *)
(***************************************************************************)
MaxPlainLen == 2     \* longest plaintext
MaxOps == 3          \* VaultManager calls in a behaviour of calls one after another
MaxConcOps == 2      \* VaultManager calls in a behaviour of overlapping calls
MaxRetriesBound == 3 \* largest configured maxRetries
MaxConcRetries == 1  \* largest configured maxRetries when two S3 calls overlap
MaxBodyLen == 2      \* longest response body and largest declared Content-Length

(***************************************************************************)
(* Values                                                                  *)
(***************************************************************************)
Some(x) == [some |-> TRUE,  v |-> x]
None    == [some |-> FALSE, v |-> <<>>]

Ok(v)  == [ok |-> TRUE,  val |-> v,    err |-> ""]
Err(m) == [ok |-> FALSE, val |-> <<>>, err |-> m]

Fill(n, x) == [i \in 1..n |-> x]

\* Uint8Array.slice(from, to), zero-based and end-exclusive, clamped to the array
Slice(a, from, to) ==
    LET hi == IF to > Len(a) THEN Len(a) ELSE to
    IN  IF from >= hi THEN <<>> ELSE SubSeq(a, from + 1, hi)

\* Passwords are strings of characters 1 and 2
PwValid1 == Fill(8, 1)
PwValid2 == Fill(9, 2)
PwSeven  == Fill(7, 1)
PwEmpty  == <<>>
Passwords == {PwValid1, PwValid2, PwSeven, PwEmpty}
ValidPasswords == {PwValid1, PwValid2}

\* Plaintexts: every byte string over two byte values, up to MaxPlainLen
PlainBytes == {7, 200}
Plaintexts == UNION {[1..n -> PlainBytes] : n \in 0..MaxPlainLen}
NonEmptyPlaintexts == Plaintexts \ {<<>>}

\* randomBytes(n): the k-th draw
RandomBytes(n, k) == Fill(n, k)

(***************************************************************************)
(* External primitives, idealised                                          *)
(***************************************************************************)
RECURSIVE PwCode(_)
\* TextEncoder.encode(password) read as one number (injective)
PwCode(pw) == IF pw = <<>> THEN 0 ELSE pw[1] + 3 * PwCode(Tail(pw))

\* argon2id(passwordBytes, salt, ...): 32 cells, injective in (password, salt)
Argon2id(pw, s) ==
    [i \in 1..ARGON2_KEY_LENGTH |->
        IF i = 1 THEN PwCode(pw)
        ELSE IF i <= 1 + Len(s) THEN s[i - 1]
        ELSE 0]

\* Poly1305 tag over the ciphertext under (key, nonce)
Mac(key, nonce, ct) ==
    [i \in 1..TAG_LENGTH |-> IF i = 1 THEN <<key, nonce, ct>> ELSE <<>>]

\* XChaCha20 keystream byte i
KeyStream(key, nonce, i) == (key[1] + nonce[1] + i) % 256

\* xchacha20poly1305(key, nonce).encrypt(plaintext): ciphertext followed by tag
CipherEncrypt(key, nonce, pt) ==
    LET ct == [i \in 1..Len(pt) |-> (pt[i] + KeyStream(key, nonce, i)) % 256]
    IN  ct \o Mac(key, nonce, ct)

\* mutant: a cipher that does not verify the tag
CipherDecrypt_NoVerify(key, nonce, data) ==
    IF Len(data) < TAG_LENGTH THEN Err("invalid tag")
    ELSE LET ct == SubSeq(data, 1, Len(data) - TAG_LENGTH)
         IN  Ok([i \in 1..Len(ct) |-> (ct[i] + 256 - KeyStream(key, nonce, i)) % 256])

\* xchacha20poly1305(key, nonce).decrypt(data): throws unless the tag verifies
CipherDecrypt(key, nonce, data) ==
    IF Len(data) < TAG_LENGTH THEN Err("invalid tag")
    ELSE LET ct  == SubSeq(data, 1, Len(data) - TAG_LENGTH)
             tag == SubSeq(data, Len(data) - TAG_LENGTH + 1, Len(data))
         IN  IF tag # Mac(key, nonce, ct) THEN Err("invalid tag")
             ELSE Ok([i \in 1..Len(ct) |->
                        (ct[i] + 256 - KeyStream(key, nonce, i)) % 256])

(***************************************************************************)
(* crypto: deriveKey, encrypt, decrypt, extractSalt, generateSalt          *)
(***************************************************************************)
\* deriveKey(password, salt), when argon2id returns.
\* An absent salt (null) makes salt.length throw.
DeriveKey(pw, s) ==
    IF ~s.some THEN Err("TypeError")
    ELSE IF Len(s.v) # SALT_LENGTH THEN Err("Salt must be exactly 16 bytes")
    ELSE IF Len(pw) = 0 THEN Err("Password cannot be empty")
    ELSE Ok(Argon2id(pw, s.v))

\* what the caller of deriveKey gets after its await; argonThrows: the
\* argon2id call threw (deriveKey's catch clause)
Awaited(key, argonThrows) ==
    IF key.ok /\ argonThrows THEN Err("Key derivation failed") ELSE key

\* mutant: the salt written before the version byte
Envelope_SaltFirst(encryptionSalt, nonce, tag, ciphertext) ==
    encryptionSalt \o <<CURRENT_VERSION>> \o nonce \o tag \o ciphertext

\* the envelope assembled by encrypt
Envelope(encryptionSalt, nonce, tag, ciphertext) ==
    <<CURRENT_VERSION>> \o encryptionSalt \o nonce \o tag \o ciphertext

\* encrypt(plaintext, key, salt?); rndSalt and nonce are the random draws
Encrypt(plaintext, key, saltOpt, rndSalt, nonce) ==
    IF Len(key) # ARGON2_KEY_LENGTH THEN Err("Key must be exactly 32 bytes")
    ELSE IF Len(plaintext) = 0 THEN Err("Plaintext cannot be empty")
    ELSE LET encryptionSalt == IF saltOpt.some THEN saltOpt.v ELSE rndSalt
         IN  IF Len(encryptionSalt) # SALT_LENGTH
             THEN Err("Salt must be exactly 16 bytes")
             ELSE LET encrypted  == CipherEncrypt(key, nonce, plaintext)
                      n          == Len(encrypted)
                      tag        == Slice(encrypted, n - TAG_LENGTH, n)
                      ciphertext == Slice(encrypted, 0, n - TAG_LENGTH)
                  IN  Ok(Envelope(encryptionSalt, nonce, tag, ciphertext))

DecryptMinLength == VERSION_BYTE_LENGTH + SALT_LENGTH + NONCE_LENGTH + TAG_LENGTH

\* mutant: decrypt hands the cipher the tag followed by the ciphertext
DecryptTry_TagFirst(ciphertext, key) ==
    LET version == ciphertext[1]
        o1 == VERSION_BYTE_LENGTH + SALT_LENGTH
        o2 == o1 + NONCE_LENGTH
        o3 == o2 + TAG_LENGTH
    IN  IF version # CURRENT_VERSION THEN Err("Unsupported version")
        ELSE LET nonce         == Slice(ciphertext, o1, o2)
                 tag           == Slice(ciphertext, o2, o3)
                 encryptedData == Slice(ciphertext, o3, Len(ciphertext))
             IN  CipherDecrypt(key, nonce, tag \o encryptedData)

\* the body of decrypt's try block
DecryptTry(ciphertext, key) ==
    LET version == ciphertext[1]
        o1 == VERSION_BYTE_LENGTH + SALT_LENGTH
        o2 == o1 + NONCE_LENGTH
        o3 == o2 + TAG_LENGTH
    IN  IF version # CURRENT_VERSION THEN Err("Unsupported version")
        ELSE LET nonce         == Slice(ciphertext, o1, o2)
                 tag           == Slice(ciphertext, o2, o3)
                 encryptedData == Slice(ciphertext, o3, Len(ciphertext))
             IN  CipherDecrypt(key, nonce, encryptedData \o tag)

\* mutant: the error of the try block passed on as it is
DecryptCatch_Rethrow(r) == r

\* decrypt's catch clause: whatever the try block threw
DecryptCatch(r) ==
    IF r.ok THEN r ELSE Err("Decryption failed: invalid key or corrupted data")

\* decrypt(ciphertext, key)
Decrypt(ciphertext, key) ==
    IF Len(key) # ARGON2_KEY_LENGTH THEN Err("Key must be exactly 32 bytes")
    ELSE IF Len(ciphertext) < DecryptMinLength
         THEN Err("Invalid ciphertext: too short")
         ELSE DecryptCatch(DecryptTry(ciphertext, key))

ExtractSaltMinLength == VERSION_BYTE_LENGTH + SALT_LENGTH

\* mutant: extractSalt without its version check
ExtractSalt_NoVersionCheck(ciphertext) ==
    IF Len(ciphertext) < ExtractSaltMinLength
    THEN Err("Invalid ciphertext: too short to extract salt")
    ELSE Ok(Slice(ciphertext, VERSION_BYTE_LENGTH, VERSION_BYTE_LENGTH + SALT_LENGTH))

\* mutant: extractSalt that slices one byte late
ExtractSalt_OneByteLate(ciphertext) ==
    IF Len(ciphertext) < ExtractSaltMinLength
    THEN Err("Invalid ciphertext: too short to extract salt")
    ELSE IF ciphertext[1] # CURRENT_VERSION THEN Err("Unsupported version")
    ELSE Ok(Slice(ciphertext, VERSION_BYTE_LENGTH + 1, VERSION_BYTE_LENGTH + 1 + SALT_LENGTH))

\* extractSalt(ciphertext)
ExtractSalt(ciphertext) ==
    IF Len(ciphertext) < ExtractSaltMinLength
    THEN Err("Invalid ciphertext: too short to extract salt")
    ELSE IF ciphertext[1] # CURRENT_VERSION THEN Err("Unsupported version")
    ELSE Ok(Slice(ciphertext, VERSION_BYTE_LENGTH, VERSION_BYTE_LENGTH + SALT_LENGTH))

\* generateSalt(): the k-th random salt
GenerateSalt(k) == RandomBytes(SALT_LENGTH, k)

\* mutant: every call uses the same nonce
GenerateNonce_Fixed(k) == RandomBytes(NONCE_LENGTH, 1)

\* the k-th random nonce
GenerateNonce(k) == RandomBytes(NONCE_LENGTH, k)

\* the salt field of a blob
SaltOf(blob) == SubSeq(blob, 2, 17)

(***************************************************************************)
(* Altered blobs                                                           *)
(***************************************************************************)
\* the (one-based) positions of the tag, whose cells are symbolic
TagPositions ==
    (VERSION_BYTE_LENGTH + SALT_LENGTH + NONCE_LENGTH + 1) ..
        (VERSION_BYTE_LENGTH + SALT_LENGTH + NONCE_LENGTH + TAG_LENGTH)

\* the lowest bit of a byte changed
FlipByte(x) == IF x % 2 = 0 THEN x + 1 ELSE x - 1

\* one bit of the byte at (one-based) position pos changed
Tamper(blob, pos) ==
    [blob EXCEPT ![pos] = IF pos \in TagPositions THEN <<@>> ELSE FlipByte(@)]

\* the first n bytes
Truncate(blob, n) == SubSeq(blob, 1, n)

\* the version byte replaced
SetVersion(blob, v) == [blob EXCEPT ![1] = v]

(***************************************************************************)
(* Specification of the crypto functions on bounded inputs                 *)
(***************************************************************************)
CryptoKeys ==
    { Argon2id(PwValid1, GenerateSalt(1)),
      Argon2id(PwValid2, GenerateSalt(1)),
      Fill(ARGON2_KEY_LENGTH - 1, 5) }

CryptoSalts == { None, Some(GenerateSalt(1)), Some(Fill(SALT_LENGTH - 1, 1)) }

OtherVersions == {0, 2, 255}

NoCall == [name |-> "none", key |-> <<>>, pw |-> <<>>]

CryptoIdle ==
    /\ cin = [pt |-> <<>>, key |-> <<>>, salt |-> None, rndSalt |-> <<>>, nonce |-> <<>>,
              out |-> Err("none")]
    /\ cblob = <<>>
    /\ cres = Err("none")
    /\ cfn = NoCall

CEncrypt ==
    /\ cin.out.err = "none"
    /\ \E pt \in Plaintexts, key \in CryptoKeys, s \in CryptoSalts, n \in 1..2 :
        LET r == Encrypt(pt, key, s, GenerateSalt(2), GenerateNonce(n))
        IN  /\ cin' = [pt |-> pt, key |-> key, salt |-> s,
                        rndSalt |-> IF r.ok THEN GenerateSalt(2) ELSE <<>>,
                        nonce |-> IF r.ok THEN GenerateNonce(n) ELSE <<>>,
                        out |-> r]
            /\ cblob' = r.val
            /\ cres' = r
            /\ cfn' = [NoCall EXCEPT !.name = "encrypt", !.key = key]
    /\ UNCHANGED <<vaultVars, s3Vars, apiVars>>

CTamper ==
    /\ cin.out.ok
    /\ cfn.name \in {"encrypt", "unlock"}
    /\ cblob = cin.out.val
    /\ \E pos \in 1..Len(cin.out.val) :
        cblob' = Tamper(cin.out.val, pos)
    /\ cres' = Err("none")
    /\ cfn' = NoCall
    /\ UNCHANGED <<cin, vaultVars, s3Vars, apiVars>>

CTruncate ==
    /\ cin.out.ok
    /\ cfn.name \in {"encrypt", "unlock"}
    /\ cblob = cin.out.val
    /\ \E n \in 0..(Len(cin.out.val) - 1) :
        cblob' = Truncate(cin.out.val, n)
    /\ cres' = Err("none")
    /\ cfn' = NoCall
    /\ UNCHANGED <<cin, vaultVars, s3Vars, apiVars>>

CSetVersion ==
    /\ cin.out.ok
    /\ cfn.name \in {"encrypt", "unlock"}
    /\ cblob = cin.out.val
    /\ \E v \in OtherVersions, n \in {ExtractSaltMinLength, DecryptMinLength, Len(cin.out.val)} :
        cblob' = SetVersion(Truncate(cin.out.val, n), v)
    /\ cres' = Err("none")
    /\ cfn' = NoCall
    /\ UNCHANGED <<cin, vaultVars, s3Vars, apiVars>>

CDecrypt ==
    /\ cfn.name \notin {"decrypt", "unlock"}
    /\ \E key \in CryptoKeys :
        /\ cres' = Decrypt(cblob, key)
        /\ cfn' = [NoCall EXCEPT !.name = "decrypt", !.key = key]
    /\ UNCHANGED <<cin, cblob, vaultVars, s3Vars, apiVars>>

CExtractSalt ==
    /\ cfn.name \notin {"extractSalt", "unlock"}
    /\ cres' = ExtractSalt(cblob)
    /\ cfn' = [NoCall EXCEPT !.name = "extractSalt"]
    /\ UNCHANGED <<cin, cblob, vaultVars, s3Vars, apiVars>>

(***************************************************************************)
(* Claims about the crypto functions (checked under SpecCrypto)            *)
(***************************************************************************)
FormatErrors ==
    {"Invalid ciphertext: too short", "Invalid ciphertext: too short to extract salt",
     "Unsupported version"}

\* C4: decrypt with a 32-byte key reports a blob shorter than 57 bytes as
\* too short and a blob whose version byte is not 0x01 as an unsupported
\* version, not as the generic decryption failure.
C4_DecryptNamesFormatProblem ==
    (cfn.name = "decrypt" /\ Len(cfn.key) = ARGON2_KEY_LENGTH)
    => /\ Len(cblob) < MIN_VAULT_LENGTH
            => (~cres.ok /\ cres.err = "Invalid ciphertext: too short")
       /\ (Len(cblob) >= MIN_VAULT_LENGTH /\ cblob[1] # CURRENT_VERSION)
            => (~cres.ok /\ cres.err = "Unsupported version")

\* the blobs decrypt accepts as well formed
WellFormed(blob) == Len(blob) >= MIN_VAULT_LENGTH /\ blob[1] = CURRENT_VERSION

\* C5 as stated: extractSalt fails on every blob shorter than 57 bytes and
\* on every blob whose version byte is not 0x01, and returns bytes 1..16
\* otherwise.
C5_ExtractSaltRejectsAsDecrypt ==
    cfn.name = "extractSalt"
    => IF WellFormed(cblob)
       THEN cres = Ok(SubSeq(cblob, 2, 17))
       ELSE ~cres.ok /\ cres.err \in FormatErrors

\* C5, amended: extractSalt fails with a format error on every blob shorter
\* than 17 bytes (version byte and salt) and on every blob of at least 17
\* bytes whose version byte is not 0x01, and returns bytes 1..16 otherwise.
C5_ExtractSaltNeedsHeaderPrefix ==
    cfn.name = "extractSalt"
    => IF Len(cblob) >= VERSION_BYTE_LENGTH + SALT_LENGTH /\ cblob[1] = CURRENT_VERSION
       THEN cres = Ok(SubSeq(cblob, 2, 17))
       ELSE ~cres.ok /\ cres.err \in FormatErrors

\* extractSalt applied to a blob cut between the salt and the minimum
\* length of decrypt: the salt comes back
C5_Witness ==
    /\ cfn.name = "extractSalt"
    /\ Len(cblob) >= VERSION_BYTE_LENGTH + SALT_LENGTH
    /\ Len(cblob) < MIN_VAULT_LENGTH
    /\ cres.ok
    /\ cres.val = SubSeq(cblob, 2, 17)

\* the arguments of the last encrypt call are valid: a non-empty plaintext,
\* a 32-byte key and a 16-byte salt (or none)
ValidEncryptInput ==
    /\ cin.out.err # "none"
    /\ Len(cin.pt) > 0
    /\ Len(cin.key) = ARGON2_KEY_LENGTH
    /\ cin.salt.some => Len(cin.salt.v) = SALT_LENGTH

\* the salt encrypt used: the one passed, or the one it drew
EncryptionSalt == IF cin.salt.some THEN cin.salt.v ELSE cin.rndSalt

\* C24: for every non-empty plaintext, 32-byte key and 16-byte salt, encrypt
\* succeeds and decrypt of its blob with the same key returns exactly the
\* plaintext.
C24_DecryptInvertsEncrypt ==
    ValidEncryptInput
    => /\ cin.out.ok
       /\ (cfn.name = "decrypt" /\ cblob = cin.out.val /\ cfn.key = cin.key)
            => cres = Ok(cin.pt)
       /\ Decrypt(cin.out.val, cin.key) = Ok(cin.pt)

C24_Witness ==
    /\ ValidEncryptInput
    /\ cin.pt = <<7, 200>> /\ cin.salt.some
    /\ cfn.name = "decrypt" /\ cblob = cin.out.val /\ cfn.key = cin.key
    /\ cres = Ok(<<7, 200>>)

\* C25: for every valid plaintext, key and salt, the blob encrypt returns is
\* 57 + len(plaintext) bytes long: byte 0 is 0x01, the salt is at offsets
\* 1..16, the nonce at 17..40, the tag at 41..56 and the ciphertext from 57.
C25_EnvelopeLayout ==
    ValidEncryptInput
    => LET out       == cin.out.val
           encrypted == CipherEncrypt(cin.key, cin.nonce, cin.pt)
       IN  /\ cin.out.ok
           /\ Len(out) = 57 + Len(cin.pt)
           /\ out[1] = 1
           /\ SubSeq(out, 2, 17) = EncryptionSalt
           /\ SubSeq(out, 18, 41) = cin.nonce
           /\ SubSeq(out, 42, 57) = SubSeq(encrypted, Len(cin.pt) + 1, Len(cin.pt) + 16)
           /\ SubSeq(out, 58, Len(out)) = SubSeq(encrypted, 1, Len(cin.pt))
           /\ SubSeq(out, 42, 57) = Mac(cin.key, cin.nonce, SubSeq(out, 58, Len(out)))

C25_Witness ==
    /\ ValidEncryptInput
    /\ cfn.name = "encrypt"
    /\ cin.pt = <<200, 7>> /\ ~cin.salt.some
    /\ Len(cblob) = 59 /\ cblob[1] = 1
    /\ SubSeq(cblob, 2, 17) = GenerateSalt(2)
    /\ SubSeq(cblob, 18, 41) = GenerateNonce(2)

\* C26: for every valid plaintext, key and salt, extractSalt of the blob
\* encrypt returns is the salt passed to encrypt.
C26_ExtractSaltInvertsEncrypt ==
    (ValidEncryptInput /\ cin.salt.some)
    => /\ cin.out.ok
       /\ (cfn.name = "extractSalt" /\ cblob = cin.out.val) => cres = Ok(cin.salt.v)
       /\ ExtractSalt(cin.out.val) = Ok(cin.salt.v)

C26_Witness ==
    /\ ValidEncryptInput /\ cin.salt.some
    /\ cfn.name = "extractSalt" /\ cblob = cin.out.val
    /\ cres = Ok(GenerateSalt(1))

(***************************************************************************)
(* VaultManager                                                            *)
(*                                                                         *)
(* An async method runs without interruption up to its next await; the     *)
(* awaits are the calls of deriveKey.  A call in flight is a frame with    *)
(* its position (pc) and its locals.  Byte arrays live in a heap, so that  *)
(* two references to one array (this.salt and save's local salt) see the   *)
(* same bytes when lock() overwrites them.                                 *)
(***************************************************************************)
HeapSize == 8
HeapRefs == 1..HeapSize
Freed == <<>>

CallIds == {1, 2}

\* the manager's fields and the heap, as one value
Mgr == [derivedKey |-> derivedKey, salt |-> salt, isLocked |-> isLocked, heap |-> heap]

\* new Uint8Array: the lowest free reference
AllocRef(h) ==
    CHOOSE r \in HeapRefs : h[r] = Freed /\ \A q \in HeapRefs : q < r => h[q] # Freed

IsZeroed(bytes) == bytes # <<>> /\ \A i \in 1..Len(bytes) : bytes[i] = 0

\* array.fill(0)
ZeroFill(bytes) == [i \in 1..Len(bytes) |-> 0]

\* this.salt as an optional argument (null when absent)
SaltArg(m, ref) == IF ref = NULL THEN None ELSE Some(m.heap[ref])

\* isUnlocked()
IsUnlockedM(m) == ~m.isLocked /\ m.derivedKey # NULL /\ m.salt # NULL
IsUnlocked == IsUnlockedM(Mgr)

\* getSalt()
GetSalt == salt

\* mutant: validatePassword without the minimum length
ValidatePassword_NoMinLength(password) ==
    IF Len(password) = 0 THEN "Password cannot be empty" ELSE ""

\* validatePassword(password): the message thrown, "" when it passes
ValidatePassword(password) ==
    IF Len(password) = 0 THEN "Password cannot be empty"
    ELSE IF Len(password) < MIN_PASSWORD_LENGTH
    THEN "Password must be at least 8 characters long"
    ELSE ""

\* validateVaultData(vault): the message thrown, "" when it passes
ValidateVaultData(v) ==
    IF Len(v) = 0 THEN "Vault data cannot be empty"
    ELSE IF Len(v) < MIN_VAULT_LENGTH THEN "Invalid vault format: data too short"
    ELSE ""

UnlockFailed == "Failed to unlock vault: incorrect password or corrupted data"

\* mutant: lock() that leaves the salt where it is
LockM_KeepsSalt(m) ==
    LET h1 == IF m.derivedKey # NULL
              THEN [m.heap EXCEPT ![m.derivedKey] = ZeroFill(@)] ELSE m.heap
    IN  [derivedKey |-> NULL, salt |-> m.salt, isLocked |-> TRUE, heap |-> h1]

\* lock()
LockM(m) ==
    LET h1 == IF m.derivedKey # NULL
              THEN [m.heap EXCEPT ![m.derivedKey] = ZeroFill(@)] ELSE m.heap
        h2 == IF m.salt # NULL THEN [h1 EXCEPT ![m.salt] = ZeroFill(@)] ELSE h1
    IN  [derivedKey |-> NULL, salt |-> NULL, isLocked |-> TRUE, heap |-> h2]

\* mutant: the catch clause rethrows without this.lock()
UnlockCatch_NoLock(m) == m

\* the catch clause of unlock: this.lock()
UnlockCatch(m) == LockM(m)

\* this.salt = <new array>
SetSalt(m, bytes) ==
    LET r == AllocRef(m.heap)
    IN  [m EXCEPT !.heap = [@ EXCEPT ![r] = bytes], !.salt = r]

\* this.derivedKey = <new array>
SetKey(m, bytes) ==
    LET r == AllocRef(m.heap)
    IN  [m EXCEPT !.heap = [@ EXCEPT ![r] = bytes], !.derivedKey = r]

\* What a method did in one uninterrupted run: the manager after it, whether
\* the call is over (fin) and then its result (res), where it stopped
\* (stage), and the locals it keeps across the await.
Step(m, fin, res, stage, key, lsalt, pt) ==
    [m |-> m, fin |-> fin, res |-> res, stage |-> stage, key |-> key,
     lsalt |-> lsalt, pt |-> pt,
     heldKey |-> NULL, heldSalt |-> NULL]

\* the same, for a run that ended in unlock's catch clause: the arrays the
\* session held when lock() ran are remembered
Caught(m0, stage) ==
    [Step(UnlockCatch(m0), TRUE, Err(UnlockFailed), stage, Err("none"), NULL, <<>>)
        EXCEPT !.heldKey = m0.derivedKey, !.heldSalt = m0.salt]

\* create, up to the await
CreateBegin(m, password, k) ==
    LET v == ValidatePassword(password)
    IN  IF v # "" THEN Step(m, TRUE, Err(v), "validate", Err("none"), NULL, <<>>)
        ELSE LET m1 == SetSalt(m, GenerateSalt(k))
             IN  Step(m1, FALSE, Err("none"), "await",
                      DeriveKey(password, SaltArg(m1, m1.salt)), NULL, <<>>)

\* create's initialData || new Uint8Array(0)
CreateData(initialData) == IF initialData.some THEN initialData.v ELSE <<>>

\* create, after the await
CreateEnd(m, f, k, n) ==
    IF ~f.key.ok THEN Step(m, TRUE, Err(f.key.err), "deriveKey", f.key, NULL, <<>>)
    ELSE LET m1 == SetKey(m, f.key.val)
             e  == Encrypt(f.data, m1.heap[m1.derivedKey], SaltArg(m1, m1.salt),
                           GenerateSalt(k), GenerateNonce(n))
         IN  IF ~e.ok THEN Step(m1, TRUE, Err(e.err), "encrypt", f.key, NULL, <<>>)
             ELSE Step([m1 EXCEPT !.isLocked = FALSE], TRUE, e, "done", f.key, NULL, <<>>)

\* mutant: unlock with its two validations inside the try block
UnlockBegin_ValidateInTry(m, encryptedVault, password) ==
    IF ValidatePassword(password) # "" \/ ValidateVaultData(encryptedVault) # ""
    THEN Caught(m, "validate")
    ELSE LET s == ExtractSalt(encryptedVault)
         IN  IF ~s.ok THEN Caught(m, "extractSalt")
             ELSE LET m1 == SetSalt(m, s.val)
                  IN  Step(m1, FALSE, Err("none"), "await",
                           DeriveKey(password, SaltArg(m1, m1.salt)),
                           NULL, <<>>)

\* unlock, up to the await
UnlockBegin(m, encryptedVault, password) ==
    LET v1 == ValidatePassword(password)
        v2 == ValidateVaultData(encryptedVault)
    IN  IF v1 # "" THEN Step(m, TRUE, Err(v1), "validate", Err("none"), NULL, <<>>)
        ELSE IF v2 # "" THEN Step(m, TRUE, Err(v2), "validate", Err("none"), NULL, <<>>)
        ELSE LET s == ExtractSalt(encryptedVault)
             IN  IF ~s.ok THEN Caught(m, "extractSalt")
                 ELSE LET m1 == SetSalt(m, s.val)
                      IN  Step(m1, FALSE, Err("none"), "await",
                               DeriveKey(password, SaltArg(m1, m1.salt)),
                               NULL, <<>>)

\* unlock, after the await
UnlockEnd(m, f) ==
    IF ~f.key.ok THEN Caught(m, "deriveKey")
    ELSE LET m1 == SetKey(m, f.key.val)
             d  == Decrypt(f.blob, m1.heap[m1.derivedKey])
         IN  IF ~d.ok THEN Caught(m1, "decrypt")
             ELSE Step([m1 EXCEPT !.isLocked = FALSE], TRUE, d, "done", f.key, NULL, d.val)

\* save, up to the await
SaveBegin(m, plaintext, password, k) ==
    LET v == ValidatePassword(password)
    IN  IF v # "" THEN Step(m, TRUE, Err(v), "validate", Err("none"), NULL, <<>>)
        ELSE IF Len(plaintext) = 0
        THEN Step(m, TRUE, Err("Cannot save empty data"), "empty-data", Err("none"), NULL, <<>>)
        ELSE LET m1 == IF m.isLocked THEN SetSalt(m, GenerateSalt(k)) ELSE m
                 \* only the local variable refers to a fresh salt
                 m2 == [m1 EXCEPT !.salt = m.salt]
             IN  Step(m2, FALSE, Err("none"), "await",
                      DeriveKey(password, SaltArg(m1, m1.salt)),
                      m1.salt, <<>>)

\* save, after the await
SaveEnd(m, f, n) ==
    IF ~f.key.ok THEN Step(m, TRUE, Err(f.key.err), "deriveKey", f.key, NULL, <<>>)
    ELSE LET e == Encrypt(f.data, f.key.val, SaltArg(m, f.lsalt),
                          GenerateSalt(0), GenerateNonce(n))
         IN  IF ~e.ok THEN Step(m, TRUE, Err(e.err), "encrypt", f.key, NULL, <<>>)
             ELSE LET m1 == SetKey([m EXCEPT !.salt = f.lsalt], f.key.val)
                  IN  Step([m1 EXCEPT !.isLocked = FALSE], TRUE, e, "done", f.key, NULL, <<>>)

\* mutant: changePassword without the comparison of the two passwords
ChangePasswordBegin_NoEqualityCheck(m, encryptedVault, currentPassword, newPassword) ==
    LET v1 == ValidatePassword(currentPassword)
        v2 == ValidatePassword(newPassword)
    IN  IF v1 # "" THEN Step(m, TRUE, Err(v1), "validate", Err("none"), NULL, <<>>)
        ELSE IF v2 # "" THEN Step(m, TRUE, Err(v2), "validate", Err("none"), NULL, <<>>)
        ELSE UnlockBegin(m, encryptedVault, currentPassword)

\* changePassword, up to the await inside unlock
ChangePasswordBegin(m, encryptedVault, currentPassword, newPassword) ==
    LET v1 == ValidatePassword(currentPassword)
        v2 == ValidatePassword(newPassword)
    IN  IF v1 # "" THEN Step(m, TRUE, Err(v1), "validate", Err("none"), NULL, <<>>)
        ELSE IF v2 # "" THEN Step(m, TRUE, Err(v2), "validate", Err("none"), NULL, <<>>)
        ELSE IF currentPassword = newPassword
        THEN Step(m, TRUE, Err("New password must be different from current password"),
                  "same-password", Err("none"), NULL, <<>>)
        ELSE UnlockBegin(m, encryptedVault, currentPassword)

\* mutant: the new key is derived from the current password
ChangePasswordDerive_OldPassword(m, f, k) ==
    LET m1 == SetSalt(m, GenerateSalt(k))
        m2 == [m1 EXCEPT !.salt = m.salt]
    IN  Step(m2, FALSE, Err("none"), "await",
             DeriveKey(f.pw, SaltArg(m1, m1.salt)), m1.salt, f.pt)

\* changePassword, from unlock's result to the await of the second deriveKey
ChangePasswordDerive(m, f, k) ==
    LET m1 == SetSalt(m, GenerateSalt(k))
        \* only the local variable newSalt refers to the new salt
        m2 == [m1 EXCEPT !.salt = m.salt]
    IN  Step(m2, FALSE, Err("none"), "await",
             DeriveKey(f.newPw, SaltArg(m1, m1.salt)), m1.salt, f.pt)

\* changePassword, after the second await
ChangePasswordEnd(m, f, n) ==
    IF ~f.key.ok THEN Step(m, TRUE, Err(f.key.err), "deriveKey2", f.key, NULL, <<>>)
    ELSE LET e == Encrypt(f.pt, f.key.val, SaltArg(m, f.lsalt),
                          GenerateSalt(0), GenerateNonce(n))
         IN  IF ~e.ok THEN Step(m, TRUE, Err(e.err), "encrypt", f.key, NULL, <<>>)
             ELSE Step(SetKey([m EXCEPT !.salt = f.lsalt], f.key.val),
                       TRUE, e, "done", f.key, NULL, <<>>)

\* mutant: update lets encrypt draw a salt of its own
Update_OwnSalt(m, plaintext, n) ==
    IF m.isLocked \/ m.derivedKey = NULL \/ m.salt = NULL
    THEN Step(m, TRUE, Err("Vault must be unlocked before updating"), "locked",
              Err("none"), NULL, <<>>)
    ELSE IF Len(plaintext) = 0
    THEN Step(m, TRUE, Err("Cannot save empty data"), "empty-data", Err("none"), NULL, <<>>)
    ELSE LET e == Encrypt(plaintext, m.heap[m.derivedKey], None,
                          GenerateSalt(0), GenerateNonce(n))
         IN  Step(m, TRUE, e, IF e.ok THEN "done" ELSE "encrypt", Err("none"), NULL, <<>>)

\* update
Update(m, plaintext, n) ==
    IF m.isLocked \/ m.derivedKey = NULL \/ m.salt = NULL
    THEN Step(m, TRUE, Err("Vault must be unlocked before updating"), "locked",
              Err("none"), NULL, <<>>)
    ELSE IF Len(plaintext) = 0
    THEN Step(m, TRUE, Err("Cannot save empty data"), "empty-data", Err("none"), NULL, <<>>)
    ELSE LET e == Encrypt(plaintext, m.heap[m.derivedKey], SaltArg(m, m.salt),
                          GenerateSalt(0), GenerateNonce(n))
         IN  Step(m, TRUE, e, IF e.ok THEN "done" ELSE "encrypt", Err("none"), NULL, <<>>)

FreeFrame ==
    [op |-> "none", pc |-> "free", pw |-> <<>>, newPw |-> <<>>, data |-> <<>>,
     blob |-> <<>>, lsalt |-> NULL, key |-> Err("none"), pt |-> <<>>, was |-> FALSE,
     alone |-> FALSE, salt0 |-> <<>>]

\* a slot that is off is never used: then calls do not overlap
Overlapping == \A c \in CallIds : calls[c].pc # "off"

NoCallInFlight == \A c \in CallIds : calls[c].pc \in {"free", "off"}

\* a call of method op with its arguments; was: the session is Unlocked when
\* the call is made; salt0: the bytes getSalt() returns then (<<>> for null);
\* alone: nothing else has run on the manager since the call was made
Frame(op, pw, newPw, data, blob) ==
    [FreeFrame EXCEPT !.op = op, !.pw = pw, !.newPw = newPw, !.data = data,
                      !.blob = blob, !.was = IsUnlocked, !.alone = NoCallInFlight,
                      !.salt0 = IF salt = NULL THEN <<>> ELSE heap[salt]]

\* the calls in flight, once something else has run
Disturbed(cs) ==
    [c \in CallIds |-> IF cs[c].pc \in {"free", "off"} THEN cs[c]
                       ELSE [cs[c] EXCEPT !.alone = FALSE]]

\* a new call takes the lowest free slot
CanStart(c) ==
    /\ calls[c].pc = "free"
    /\ \A d \in CallIds : d < c => calls[d].pc # "free"
    /\ nOps < (IF Overlapping THEN MaxConcOps ELSE MaxOps)

\* the record of a step: the call (f), what became of it (phase: "suspend" at
\* an await, "return" when the call is over) and the outcome (st); again: the
\* step is a lock() that follows a lock() at once
Event(f, phase, st) ==
    [op |-> f.op, phase |-> phase, ok |-> st.res.ok, err |-> st.res.err,
     out |-> st.res.val, stage |-> st.stage,
     pw |-> f.pw, newPw |-> f.newPw, data |-> f.data, blob |-> f.blob,
     was |-> f.was, alone |-> f.alone, salt0 |-> f.salt0, argon |-> (f.key.err = "Key derivation failed"),
     heldKey |-> st.heldKey, heldSalt |-> st.heldSalt, again |-> FALSE]

NoStep(m) == Step(m, TRUE, Err("none"), "", Err("none"), NULL, <<>>)

\* the caller's track of a sequence of calls: the blob returned before the
\* one it holds now (old), the password of the last successful create,
\* unlock, save or changePassword (pw), and the data given to the call that
\* produced the blob it holds now (data); kept only when on
NoNotes == [on |-> FALSE, old |-> <<>>, pw |-> <<>>, data |-> <<>>]

\* the notes after call f ran a step st
Noted(f, st) ==
    IF ~notes.on \/ ~st.fin \/ ~st.res.ok THEN notes
    ELSE [on   |-> TRUE,
          old  |-> IF f.op = "unlock" THEN notes.old ELSE vault,
          pw   |-> CASE f.op = "update" -> notes.pw
                     [] f.op = "changePassword" -> f.newPw
                     [] OTHER -> f.pw,
          data |-> CASE f.op = "unlock" -> notes.data
                     [] f.op = "changePassword" -> f.pt
                     [] OTHER -> f.data]

\* calls may overlap (both slots free), or come one after another
OneAtATime == [c \in CallIds |-> IF c = 1 THEN FreeFrame ELSE [FreeFrame EXCEPT !.pc = "off"]]

\* new VaultManager()
VaultNew ==
    /\ derivedKey = NULL
    /\ salt = NULL
    /\ isLocked = TRUE
    /\ heap = [r \in HeapRefs |-> Freed]
    /\ vault = <<>>
    /\ nSalts = 0
    /\ nNonces = 0
    /\ nOps = 0
    /\ last = Event(FreeFrame, "init", NoStep(Mgr))

VaultIdle ==
    /\ VaultNew
    /\ calls \in {[c \in CallIds |-> FreeFrame], OneAtATime}
    /\ notes = NoNotes

\* a manager nobody calls, or on which only the crypto pipeline runs unlock
VaultUnused ==
    /\ VaultNew
    /\ calls = OneAtATime
    /\ notes = NoNotes

\* a manager whose calls come one after another, the caller keeping track
VaultSeqIdle ==
    /\ VaultNew
    /\ calls = OneAtATime
    /\ notes = [NoNotes EXCEPT !.on = TRUE]

\* the references the program (and the record of the last step) still holds
Roots(dk, sl, cs, ev) ==
    ({dk, sl, ev.heldKey, ev.heldSalt} \cup {cs[c].lsalt : c \in CallIds}) \ {NULL}

\* arrays nobody refers to are gone
Collect(h, roots) == [r \in HeapRefs |-> IF r \in roots THEN h[r] ELSE Freed]

\* the state after a step st of call c, whose frame is f; pc is where the
\* call waits if it is not over; ds, dn: random salts and nonces drawn
Commit(c, f, st, pc, ds, dn) ==
    /\ derivedKey' = st.m.derivedKey
    /\ salt' = st.m.salt
    /\ isLocked' = st.m.isLocked
    /\ calls' = [Disturbed(calls) EXCEPT ![c] =
                   IF st.fin THEN FreeFrame
                   ELSE [f EXCEPT !.pc = pc, !.key = st.key, !.lsalt = st.lsalt, !.pt = st.pt]]
    /\ last' = Event(f, IF st.fin THEN "return" ELSE "suspend", st)
    /\ vault' = IF st.fin /\ st.res.ok /\ f.op # "unlock" THEN st.res.val ELSE vault
    /\ notes' = Noted(f, st)
    /\ nSalts' = nSalts + ds
    /\ nNonces' = nNonces + dn
    /\ heap' = Collect(st.m.heap, Roots(derivedKey', salt', calls', last'))
    /\ UNCHANGED <<cryptoVars, s3Vars, apiVars>>

\* the step of lock(): the arrays it overwrote are remembered
LockStep(m) ==
    [NoStep(LockM(m)) EXCEPT !.stage = "done", !.res = Ok(<<>>),
                             !.heldKey = m.derivedKey, !.heldSalt = m.salt]

\* the positions (one-based) of the first salt, nonce and tag bytes
SaltPos  == VERSION_BYTE_LENGTH + 1
NoncePos == VERSION_BYTE_LENGTH + SALT_LENGTH + 1
TagPos   == VERSION_BYTE_LENGTH + SALT_LENGTH + NONCE_LENGTH + 1

\* the blobs a caller holding v may pass: v, v with one bit changed in the
\* salt or in the last byte, v with another version, v cut short
BlobInputs(v) ==
    IF v = <<>> THEN {<<>>, Fill(10, 0)}
    ELSE {v, Tamper(v, SaltPos), Tamper(v, Len(v)),
          SetVersion(v, 2), Truncate(v, MIN_VAULT_LENGTH - 1)}
         \cup ({notes.old} \ {<<>>})

VaultData == {<<>>, <<7>>}
CreateInputs == {None} \cup {Some(d) : d \in VaultData}
InvalidPasswords == Passwords \ ValidPasswords

\* the arguments of unlock: every blob with a valid password, and one blob
\* with each password that validatePassword rejects before looking at it
UnlockInputs(v) ==
    {<<pw, b>> : pw \in ValidPasswords, b \in BlobInputs(v)}
        \cup {<<pw, v>> : pw \in InvalidPasswords}

\* the password pairs of changePassword: different valid ones, the same
\* one twice, and a rejected one in either place
PasswordPairs ==
    {<<PwValid1, PwValid2>>, <<PwValid2, PwValid1>>, <<PwValid1, PwValid1>>,
     <<PwSeven, PwValid1>>, <<PwValid1, PwEmpty>>, <<PwSeven, PwSeven>>}

\* the arguments of changePassword: every blob with two different valid
\* passwords, one blob with the pairs rejected before unlock runs
ChangePasswordInputs(v) ==
    {<<pp, b>> : pp \in {<<PwValid1, PwValid2>>, <<PwValid2, PwValid1>>}, b \in BlobInputs(v)}
        \cup {<<pp, v>> : pp \in PasswordPairs}

\* create(password, initialData) is called
VCreate(c) ==
    /\ CanStart(c)
    /\ nOps' = nOps + 1
    /\ \E pw \in Passwords, d \in CreateInputs :
        LET f  == Frame("create", pw, <<>>, CreateData(d), <<>>)
            st == CreateBegin(Mgr, pw, nSalts + 1)
        IN  Commit(c, f, st, "derive", IF st.fin THEN 0 ELSE 1, 0)

\* create goes on after its await
VCreateResume(c) ==
    /\ calls[c].op = "create" /\ calls[c].pc = "derive"
    /\ \E argonThrows \in BOOLEAN :
        LET f  == [calls[c] EXCEPT !.key = Awaited(@, argonThrows)]
            st == CreateEnd(Mgr, f, nSalts + 1, nNonces + 1)
        IN  Commit(c, f, st, "",
                   IF st.res.ok /\ salt = NULL THEN 1 ELSE 0, IF st.res.ok THEN 1 ELSE 0)
    /\ UNCHANGED nOps

\* unlock(encryptedVault, password) is called
VUnlock(c) ==
    /\ CanStart(c)
    /\ nOps' = nOps + 1
    /\ \E in \in UnlockInputs(vault) :
        LET pw == in[1]
            b  == in[2]
            f  == Frame("unlock", pw, <<>>, <<>>, b)
            st == UnlockBegin(Mgr, b, pw)
        IN  Commit(c, f, st, "derive", 0, 0)

\* unlock goes on after its await
VUnlockResume(c) ==
    /\ calls[c].op = "unlock" /\ calls[c].pc = "derive"
    /\ \E argonThrows \in BOOLEAN :
        LET f == [calls[c] EXCEPT !.key = Awaited(@, argonThrows)]
        IN  Commit(c, f, UnlockEnd(Mgr, f), "", 0, 0)
    /\ UNCHANGED nOps

\* save(plaintext, password) is called
VSave(c) ==
    /\ CanStart(c)
    /\ nOps' = nOps + 1
    /\ \E pw \in Passwords, d \in VaultData :
        LET f  == Frame("save", pw, <<>>, d, <<>>)
            st == SaveBegin(Mgr, d, pw, nSalts + 1)
        IN  Commit(c, f, st, "derive", IF ~st.fin /\ isLocked THEN 1 ELSE 0, 0)

\* save goes on after its await
VSaveResume(c) ==
    /\ calls[c].op = "save" /\ calls[c].pc = "derive"
    /\ \E argonThrows \in BOOLEAN :
        LET f  == [calls[c] EXCEPT !.key = Awaited(@, argonThrows)]
            st == SaveEnd(Mgr, f, nNonces + 1)
        IN  Commit(c, f, st, "", 0, IF st.res.ok THEN 1 ELSE 0)
    /\ UNCHANGED nOps

\* changePassword(encryptedVault, currentPassword, newPassword) is called
VChangePassword(c) ==
    /\ CanStart(c)
    /\ nOps' = nOps + 1
    /\ \E in \in ChangePasswordInputs(vault) :
        LET cur == in[1][1]
            new == in[1][2]
            b   == in[2]
            f   == Frame("changePassword", cur, new, <<>>, b)
            st  == ChangePasswordBegin(Mgr, b, cur, new)
        IN  Commit(c, f, st, "cp-unlock", 0, 0)

\* changePassword: the unlock it awaits goes on after its await
VChangePasswordUnlocked(c) ==
    /\ calls[c].op = "changePassword" /\ calls[c].pc = "cp-unlock"
    /\ \E argonThrows \in BOOLEAN :
        LET f  == [calls[c] EXCEPT !.key = Awaited(@, argonThrows)]
            st == UnlockEnd(Mgr, f)
        IN  Commit(c, f, [st EXCEPT !.fin = ~st.res.ok], "cp-unlocked", 0, 0)
    /\ UNCHANGED nOps

\* changePassword goes on with the plaintext: new salt, second deriveKey
VChangePasswordDerive(c) ==
    /\ calls[c].op = "changePassword" /\ calls[c].pc = "cp-unlocked"
    /\ Commit(c, calls[c], ChangePasswordDerive(Mgr, calls[c], nSalts + 1),
              "cp-derive", 1, 0)
    /\ UNCHANGED nOps

\* changePassword goes on after its second await
VChangePasswordResume(c) ==
    /\ calls[c].op = "changePassword" /\ calls[c].pc = "cp-derive"
    /\ \E argonThrows \in BOOLEAN :
        LET f  == [calls[c] EXCEPT !.key = Awaited(@, argonThrows)]
            st == ChangePasswordEnd(Mgr, f, nNonces + 1)
        IN  Commit(c, f, st, "", 0, IF st.res.ok THEN 1 ELSE 0)
    /\ UNCHANGED nOps

\* update(plaintext): no await, it runs in one piece
VUpdate(c) ==
    /\ CanStart(c)
    /\ nOps' = nOps + 1
    /\ \E d \in VaultData :
        LET st == Update(Mgr, d, nNonces + 1)
        IN  Commit(c, Frame("update", <<>>, <<>>, d, <<>>), st, "", 0, IF st.res.ok THEN 1 ELSE 0)

\* lock(); a caller whose calls come one after another calls it between calls
VLock ==
    /\ notes.on => NoCallInFlight
    /\ LET st == LockStep(Mgr)
       IN  /\ derivedKey' = st.m.derivedKey
           /\ salt' = st.m.salt
           /\ isLocked' = st.m.isLocked
           /\ calls' = Disturbed(calls)
           /\ last' = [Event(Frame("lock", <<>>, <<>>, <<>>, <<>>), "return", st)
                          EXCEPT !.again = (last.op = "lock")]
           /\ heap' = Collect(st.m.heap, Roots(derivedKey', salt', calls', last'))
    /\ UNCHANGED <<vault, nSalts, nNonces, nOps, notes, cryptoVars, s3Vars, apiVars>>

\* a manager just constructed
FreshMgr ==
    [derivedKey |-> NULL, salt |-> NULL, isLocked |-> TRUE, heap |-> [r \in HeapRefs |-> Freed]]

\* unlock(blob, pw) on manager m, run to its end with nothing in between
UnlockSteps(m, blob, pw) ==
    LET b == UnlockBegin(m, blob, pw)
    IN  IF b.fin THEN b
        ELSE UnlockEnd(b.m, [FreeFrame EXCEPT !.blob = blob, !.pw = pw, !.key = b.key])

\* its result
UnlockRun(m, blob, pw) == UnlockSteps(m, blob, pw).res

\* the blob under test is given to unlock, which runs to its end: the blob
\* encrypt returned, or the blob altered (after that unlock or without it)
CUnlock ==
    /\ cin.out.ok
    /\ cfn.name \in {"encrypt", "none"}
    /\ \E pw \in ValidPasswords :
        LET f  == Frame("unlock", pw, <<>>, <<>>, cblob)
            st == UnlockSteps(Mgr, cblob, pw)
        IN  /\ cres' = st.res
            /\ cfn' = [NoCall EXCEPT !.name = "unlock", !.pw = pw]
            /\ derivedKey' = st.m.derivedKey
            /\ salt' = st.m.salt
            /\ isLocked' = st.m.isLocked
            /\ last' = Event(f, "return", st)
            /\ heap' = Collect(st.m.heap, Roots(derivedKey', salt', calls, last'))
    /\ UNCHANGED <<cin, cblob, calls, vault, nSalts, nNonces, nOps, notes, s3Vars, apiVars>>

\* the positions at which the blob under test differs by one bit from the
\* blob encrypt returned
TamperedAt ==
    IF ~cin.out.ok THEN {}
    ELSE {pos \in 1..Len(cin.out.val) : cblob = Tamper(cin.out.val, pos)}

\* pw is the password of the blob encrypt returned: its key was derived
\* from pw and the salt in the blob
CorrectPassword(pw) ==
    cin.out.ok /\ DeriveKey(pw, Some(SaltOf(cin.out.val))) = Ok(cin.key)

\* C28: a blob made by encrypt with one bit changed in its tag or ciphertext
\* makes decrypt with the original key fail; with one bit changed anywhere
\* (version, salt, nonce, tag, ciphertext) it makes unlock with the correct
\* password fail and leave the session Locked, no key and no salt held;
\* neither call returns any plaintext.
C28_TamperedBlobRejected ==
    \A pos \in TamperedAt :
        /\ (cfn.name = "decrypt" /\ cfn.key = cin.key /\ pos >= TagPos)
            => (~cres.ok /\ cres.val = <<>>)
        /\ (cfn.name = "unlock" /\ CorrectPassword(cfn.pw))
            => /\ ~cres.ok /\ cres.val = <<>>
               /\ isLocked /\ ~IsUnlocked
               /\ derivedKey = NULL /\ GetSalt = NULL

\* a session Unlocked with the blob is given the blob with one bit of the
\* nonce changed, and the correct password: it ends Locked
C28_Witness ==
    /\ NoncePos \in TamperedAt
    /\ cfn.name = "unlock" /\ CorrectPassword(cfn.pw)
    /\ last.was
    /\ ~cres.ok /\ isLocked /\ derivedKey = NULL

DecryptionFailed == "Decryption failed: invalid key or corrupted data"

\* C29: decrypt of a well-formed blob with a 32-byte key fails with one and
\* the same error whatever the cause (wrong key, changed ciphertext, changed
\* tag, changed nonce), and unlock fails with one and the same error for
\* every failure after input validation (unsupported version, wrong
\* password, changed salt, nonce, tag or ciphertext).
C29_FailuresIndistinguishable ==
    /\ (cfn.name = "decrypt" /\ ~cres.ok
        /\ Len(cfn.key) = ARGON2_KEY_LENGTH /\ WellFormed(cblob))
       => cres = Err(DecryptionFailed)
    /\ (cfn.name = "unlock" /\ ~cres.ok /\ ValidateVaultData(cblob) = "")
       => cres = Err(UnlockFailed)

\* unlock of a blob with an unsupported version byte fails exactly as
\* unlock with a wrong password does
C29_Witness ==
    /\ cfn.name = "unlock" /\ ~cres.ok
    /\ Len(cblob) >= MIN_VAULT_LENGTH /\ cblob[1] # CURRENT_VERSION
    /\ CorrectPassword(cfn.pw)
    /\ cres = Err(UnlockFailed)
    /\ UnlockRun(FreshMgr, cin.out.val, PwValid2) = Err(UnlockFailed)

(***************************************************************************)
(* Claims about the VaultManager (checked under SpecVault)                 *)
(***************************************************************************)

\* C1: whenever no operation is in progress and isUnlocked() is false, the
\* session holds no key material: the derived key is null and getSalt()
\* returns null.
C1_LockedHoldsNoKeyMaterial ==
    (NoCallInFlight /\ ~IsUnlocked) => (derivedKey = NULL /\ GetSalt = NULL)

\* the arguments of the call that last returned pass unlock's validation
PassedUnlockValidation ==
    /\ ValidatePassword(last.pw) = ""
    /\ ValidateVaultData(last.blob) = ""
    /\ last.op = "changePassword" =>
         (ValidatePassword(last.newPw) = "" /\ last.newPw # last.pw)

\* C2: an unlock (direct, or run by changePassword) that passes input
\* validation and then fails throws, and the session ends Locked: no key and
\* no salt is held, and the arrays held when it failed are all zeros.
C2_FailedUnlockLocksAndWipes ==
    (/\ last.op \in {"unlock", "changePassword"}
     /\ last.phase = "return"
     /\ ~last.ok
     /\ last.stage \notin {"deriveKey2", "encrypt"}
     /\ PassedUnlockValidation)
    => /\ last.err = UnlockFailed
       /\ isLocked /\ ~IsUnlocked
       /\ derivedKey = NULL /\ GetSalt = NULL
       /\ last.heldKey # NULL => IsZeroed(heap[last.heldKey])
       /\ last.heldSalt # NULL => IsZeroed(heap[last.heldSalt])

\* a wrong password given to an Unlocked session: the key derived from it
\* and the salt read from the blob were the ones held, and are wiped
C2_Witness ==
    /\ last.op = "unlock" /\ last.phase = "return" /\ ~last.ok
    /\ last.stage = "decrypt" /\ last.was
    /\ last.heldKey # NULL /\ IsZeroed(heap[last.heldKey])
    /\ last.heldSalt # NULL /\ IsZeroed(heap[last.heldSalt])
    /\ isLocked

\* C3: create with a valid password and empty (or omitted) initial data
\* succeeds, returns a blob of exactly 57 bytes and leaves the session
\* Unlocked (the key derivation itself not failing).
C3_CreateEmptySucceeds ==
    (/\ last.op = "create"
     /\ last.phase = "return"
     /\ ValidatePassword(last.pw) = ""
     /\ last.data = <<>>
     /\ ~last.argon)
    => /\ last.ok
       /\ Len(last.out) = MIN_VAULT_LENGTH
       /\ IsUnlocked

\* this step leaves the session as it was: the flag, the key and the salt
\* (the same arrays with the same bytes)
SessionKept ==
    /\ isLocked' = isLocked
    /\ derivedKey' = derivedKey
    /\ salt' = salt
    /\ derivedKey # NULL => heap'[derivedKey] = heap[derivedKey]
    /\ salt # NULL => heap'[salt] = heap[salt]

\* this step did no cryptographic work: the call returned in the step that
\* started it (no key derivation was awaited), no salt and no nonce was
\* drawn, no array was allocated
NoCryptoWork ==
    /\ last'.phase = "return"
    /\ nSalts' = nSalts
    /\ nNonces' = nNonces
    /\ \A r \in HeapRefs : heap[r] = Freed => heap'[r] = Freed

\* a password that is empty or shorter than 8 characters
BadPassword(pw) == Len(pw) < 8

\* unlock's arguments are rejected by its input validation
RejectedByValidation(pw, blob) == BadPassword(pw) \/ Len(blob) < 57

PasswordErrors == {"Password cannot be empty", "Password must be at least 8 characters long"}
VaultDataErrors == {"Vault data cannot be empty", "Invalid vault format: data too short"}

\* C15 as stated: every unlock call that fails, for whatever reason, leaves
\* the session Locked.
C15_AnyFailedUnlockLocks ==
    (last.op = "unlock" /\ last.phase = "return" /\ ~last.ok)
    => (isLocked /\ ~IsUnlocked)

\* C15, amended: an unlock call that passes input validation and then fails
\* leaves the session Locked with no key and no salt, also when it was
\* Unlocked before; an unlock call rejected by input validation (too-short
\* password, blob shorter than 57 bytes) throws the validation error and
\* leaves the session as it was, so an Unlocked session stays Unlocked.
C15_FailedUnlockLocksUnlessRejected ==
    [][(last'.op = "unlock" /\ last'.phase = "return" /\ ~last'.ok)
       => IF RejectedByValidation(last'.pw, last'.blob)
          THEN /\ last'.err \in PasswordErrors \cup VaultDataErrors
               /\ SessionKept
               /\ NoCryptoWork
          ELSE /\ last'.err = UnlockFailed
               /\ isLocked' /\ derivedKey' = NULL /\ salt' = NULL]_vars

\* an Unlocked session given a too-short blob with a valid password: the
\* call is rejected and the session is still Unlocked
C15_Witness ==
    /\ last.op = "unlock" /\ last.phase = "return" /\ ~last.ok
    /\ ~BadPassword(last.pw) /\ Len(last.blob) \in 1..56
    /\ last.err = "Invalid vault format: data too short"
    /\ last.was /\ IsUnlocked

\* C16: create, unlock, save and changePassword reject a password argument
\* that is empty or shorter than 8 characters before any salt is generated,
\* any key derived and anything encrypted or decrypted, and the rejected
\* call leaves the locked flag, the key and the salt as they were.
C16_PasswordCheckedFirst ==
    [][(/\ last'.op \in {"create", "unlock", "save", "changePassword"}
        /\ \/ BadPassword(last'.pw)
           \/ last'.op = "changePassword" /\ BadPassword(last'.newPw))
       => /\ ~last'.ok
          /\ last'.err \in PasswordErrors
          /\ SessionKept
          /\ NoCryptoWork]_vars

\* changePassword on an Unlocked session with a valid current password and
\* an empty new one: rejected, the session still Unlocked
C16_Witness ==
    /\ last.op = "changePassword" /\ last.phase = "return" /\ ~last.ok
    /\ ~BadPassword(last.pw) /\ last.newPw = <<>>
    /\ last.err = "Password cannot be empty"
    /\ last.blob # <<>>
    /\ last.was /\ IsUnlocked

\* C17: changePassword with identical valid current and new passwords is
\* rejected before unlock, key derivation or encryption runs and leaves the
\* session as it was: Unlocked with the same key and salt, or Locked.
C17_SamePasswordRejectedFirst ==
    [][(/\ last'.op = "changePassword"
        /\ last'.pw = last'.newPw
        /\ ~BadPassword(last'.pw))
       => /\ ~last'.ok
          /\ last'.err = "New password must be different from current password"
          /\ SessionKept
          /\ NoCryptoWork]_vars

C17_Witness ==
    /\ last.op = "changePassword" /\ last.phase = "return" /\ ~last.ok
    /\ last.pw = last.newPw /\ ~BadPassword(last.pw)
    /\ last.err = "New password must be different from current password"
    /\ last.blob # <<>>
    /\ last.was /\ IsUnlocked /\ derivedKey # NULL /\ ~IsZeroed(heap[derivedKey])

\* what unlock computes from a blob and a password on a manager of its own:
\* extractSalt, deriveKey, decrypt
Opens(blob, pw) ==
    LET s == ExtractSalt(blob)
    IN  IF ~s.ok THEN s
        ELSE LET k == DeriveKey(pw, Some(s.val))
             IN  IF ~k.ok THEN k ELSE Decrypt(blob, k.val)

C19_UpdateUsesHeldKeyAndSalt ==
    [][last'.op = "update"
       => /\ last'.phase = "return"
          /\ SessionKept
          /\ nSalts' = nSalts
          /\ IF ~IsUnlocked \/ last'.data = <<>>
             THEN ~last'.ok /\ NoCryptoWork
             ELSE /\ last'.ok
                  /\ SaltOf(last'.out) = heap[salt]
                  /\ heap'[salt'] = SaltOf(last'.out)
                  /\ Decrypt(last'.out, heap[derivedKey]) = Ok(last'.data)
                  /\ IsUnlocked']_vars

C19_Witness ==
    /\ last.op = "update" /\ last.phase = "return" /\ last.ok
    /\ last.data = <<7>>
    /\ IsUnlocked
    /\ SaltOf(last.out) = heap[GetSalt]
    /\ Decrypt(last.out, heap[derivedKey]) = Ok(<<7>>)

\* C20: save with a valid password and non-empty data (nothing else running
\* on the manager meanwhile, the key derivation itself not failing) ends
\* Unlocked from any state; from an Unlocked session the blob and the session
\* keep the salt held before the call, otherwise a fresh salt is generated;
\* the session key is the key derived from save's password and that salt.
C20_SaveEndsUnlocked ==
    (/\ last.op = "save" /\ last.phase = "return"
     /\ ~BadPassword(last.pw) /\ last.data # <<>>
     /\ last.alone /\ ~last.argon)
    => /\ last.ok
       /\ IsUnlocked
       /\ heap[salt] = SaltOf(last.out)
       /\ IF last.was THEN heap[salt] = last.salt0
                      ELSE heap[salt] = GenerateSalt(nSalts) /\ heap[salt] # last.salt0
       /\ Ok(heap[derivedKey]) = DeriveKey(last.pw, Some(heap[salt]))
       /\ Opens(last.out, last.pw) = Ok(last.data)

\* C21: lock(), in any state, overwrites the key and the salt the session
\* holds with zeros, releases them and leaves the session Locked:
\* isUnlocked() is false and getSalt() is null; it does not throw; a lock()
\* that follows a lock() finds nothing to overwrite and leaves the session
\* as the first one left it, and a further lock() would change nothing.
C21_LockWipesAndIsIdempotent ==
    last.op = "lock"
    => /\ last.phase = "return" /\ last.ok
       /\ isLocked /\ ~IsUnlocked
       /\ derivedKey = NULL /\ GetSalt = NULL
       /\ last.heldKey # NULL => IsZeroed(heap[last.heldKey])
       /\ last.heldSalt # NULL => IsZeroed(heap[last.heldSalt])
       /\ last.was => (last.heldKey # NULL /\ last.heldSalt # NULL)
       /\ last.again => (last.heldKey = NULL /\ last.heldSalt = NULL /\ ~last.was)
       /\ LockM(Mgr) = Mgr

\* lock() on an Unlocked session, and lock() once more
C21_Witness ==
    /\ last.op = "lock" /\ last.again
    /\ vault # <<>>
    /\ isLocked /\ derivedKey = NULL /\ GetSalt = NULL

\* lock() on an Unlocked session: the key and the salt it held are zeros
C21_WitnessWipe ==
    /\ last.op = "lock" /\ last.was
    /\ IsZeroed(heap[last.heldKey]) /\ IsZeroed(heap[last.heldSalt])

\* C22: after every successful create, unlock, save or changePassword,
\* isUnlocked() is true and getSalt() is the salt field of the blob the call
\* returned (for unlock: of the blob it was given).
C22_SuccessHoldsBlobSalt ==
    (/\ last.op \in {"create", "unlock", "save", "changePassword"}
     /\ last.phase = "return" /\ last.ok)
    => /\ IsUnlocked
       /\ GetSalt # NULL
       /\ heap[GetSalt] = SaltOf(IF last.op = "unlock" THEN last.blob ELSE last.out)

\* the same of the calls during which nothing else ran on the manager
C22_SuccessAloneHoldsBlobSalt ==
    last.alone => C22_SuccessHoldsBlobSalt

\* the nonce field of a blob
NonceOf(blob) == SubSeq(blob, 18, 41)

\* the step just taken returned a blob made by encrypt
ProducedBlob ==
    /\ last.op \in {"create", "save", "update", "changePassword"}
    /\ last.phase = "return" /\ last.ok

\* C27: every blob returned by create, save, update or changePassword carries
\* a nonce drawn for it: the draw made in the step that returned it, which is
\* none of the earlier draws, so that no two blobs carry the same nonce,
\* under the same key or not; and the blob differs from the blob returned
\* before it, also when plaintext, key and salt are the same.
C27_NonceNeverReused ==
    [][ProducedBlob'
       => /\ nNonces' = nNonces + 1
          /\ NonceOf(last'.out) = GenerateNonce(nNonces')
          /\ \A k \in 1..nNonces : GenerateNonce(k) # NonceOf(last'.out)
          /\ vault # <<>> => NonceOf(vault) \in {GenerateNonce(k) : k \in 1..nNonces}
          /\ last'.out # vault
          /\ vault' = last'.out]_vars

\* the third blob of one session, made by update under the salt of the first:
\* it carries the third nonce drawn
C27_Witness ==
    /\ ProducedBlob /\ last.op = "update"
    /\ nNonces = 3 /\ nOps = 3
    /\ NonceOf(last.out) = GenerateNonce(3)
    /\ Decrypt(last.out, heap[derivedKey]) = Ok(<<7>>)
    /\ SaltOf(last.out) = GenerateSalt(1)

\* C23: in every sequence of non-overlapping calls, the blob returned by the
\* most recent successful create, save, update or changePassword unlocks, on
\* this manager and on a fresh one, with the password of the most recent
\* successful create, unlock, save or changePassword (its new password) and
\* yields the data passed to the call that produced the blob.
C23_LatestBlobOpensWithLatestPassword ==
    (notes.on /\ NoCallInFlight /\ vault # <<>>)
    => /\ UnlockRun(FreshMgr, vault, notes.pw) = Ok(notes.data)
       /\ UnlockRun(Mgr, vault, notes.pw) = Ok(notes.data)

(***************************************************************************)
(* S3Client                                                                *)
(***************************************************************************)
DefaultMaxRetries == 3
DefaultRetryDelay == 1000

S3Ids == {1, 2}

RECURSIVE Pow2(_)
\* Math.pow(2, n)
Pow2(n) == IF n = 0 THEN 1 ELSE 2 * Pow2(n - 1)

Quote == 34

\* new S3ClientError(message, statusCode, code); 0 and "" stand for undefined
S3ClientError(message, statusCode, code) ==
    [name |-> "S3ClientError", message |-> message, statusCode |-> statusCode, code |-> code]

\* what fetch and the body reader reject with
AbortError == [name |-> "AbortError", message |-> "aborted", statusCode |-> 0, code |-> ""]
FetchError(message) == [name |-> "TypeError", message |-> message, statusCode |-> 0, code |-> ""]

NoError == [name |-> "", message |-> "", statusCode |-> 0, code |-> ""]

S3Pending == [ok |-> FALSE, etag |-> <<>>, len |-> 0, err |-> NoError]
S3Ok(etag, len) == [ok |-> TRUE, etag |-> etag, len |-> len, err |-> NoError]
S3Fail(e) == [ok |-> FALSE, etag |-> <<>>, len |-> 0, err |-> e]

\* getErrorCode(status)
GetErrorCode(status) ==
    CASE status = 400 -> "BAD_REQUEST"
      [] status = 403 -> "FORBIDDEN"
      [] status = 404 -> "NOT_FOUND"
      [] status = 412 -> "PRECONDITION_FAILED"
      [] status = 500 -> "INTERNAL_ERROR"
      [] status = 503 -> "SERVICE_UNAVAILABLE"
      [] OTHER -> "UNKNOWN_ERROR"

\* response.ok
ResponseOk(status) == status >= 200 /\ status <= 299

\* extractETag(headers): the header without its surrounding quotes, <<>> for null
ExtractETag(header) ==
    IF header = <<>> THEN <<>>
    ELSE LET a == IF Head(header) = Quote THEN Tail(header) ELSE header
         IN  IF a # <<>> /\ a[Len(a)] = Quote THEN SubSeq(a, 1, Len(a) - 1) ELSE a

\* the ETag header the store sends for entity tag n
ETagHeader(n) == <<Quote, n, Quote>>

\* handleError(error)
HandleError(error) ==
    IF error.name = "S3ClientError" THEN error
    ELSE IF error.name = "AbortError"
         THEN S3ClientError("Operation was cancelled", 0, "ABORTED")
    ELSE IF error.message = "Failed to fetch"
         THEN S3ClientError("Network error", 0, "NETWORK_ERROR")
    ELSE S3ClientError(error.message, 0, "")

\* the shouldRetry argument download and upload pass to retryOperation
ShouldRetry(op) == op = "download"

\* mutant: 403 and 404 left out of the list
IsTerminalError_No4xx(error) ==
    /\ error.name = "S3ClientError"
    /\ \/ error.code = "PRECONDITION_FAILED"
       \/ error.code = "ETAG_MISMATCH"

\* retryOperation: the errors listed as never retried
IsTerminalError(error) ==
    /\ error.name = "S3ClientError"
    /\ \/ error.code = "PRECONDITION_FAILED"
       \/ error.code = "ETAG_MISMATCH"
       \/ error.statusCode = 403
       \/ error.statusCode = 404

\* mutant: the flag tested the wrong way round
NoRetry_FlagInverted(shouldRetry, error) == shouldRetry /\ IsTerminalError(error)

\* retryOperation: the first "don't retry" test
NoRetry(shouldRetry, error) == ~shouldRetry \/ IsTerminalError(error)

\* retryOperation: the "don't retry if it's an abort" test
IsAbort(error) == error.name = "AbortError"

\* mutant: the loop gives up one round early
IsLastAttempt_OneEarly(attempt, max) == attempt + 1 >= max

\* retryOperation: the "last attempt" test
IsLastAttempt(attempt, max) == attempt = max

\* mutant: a delay that grows linearly
BackoffDelay_Linear(attempt) == DefaultRetryDelay * (attempt + 1)

\* retryOperation: the delay before the retry that follows attempt
BackoffDelay(attempt) == DefaultRetryDelay * Pow2(attempt)

\* retryOperation's catch block: rethrow, or wait and go round the loop
RetryAction(shouldRetry, error, attempt, max) ==
    IF NoRetry(shouldRetry, error) THEN "throw"
    ELSE IF IsAbort(error) THEN "throw"
    ELSE IF IsLastAttempt(attempt, max) THEN "throw"
    ELSE "backoff"

\* mutant: download without the comparison with expectedEtag
DownloadCheck_NoEtagCheck(status, etagHeader, expectedEtag) ==
    LET etag == ExtractETag(etagHeader)
    IN  IF ~ResponseOk(status)
        THEN S3ClientError("Failed to download from S3", status, GetErrorCode(status))
        ELSE IF etag = <<>>
        THEN S3ClientError("ETag not found in response headers", 0, "")
        ELSE NoError

\* download: the response checked once its headers are there;
\* NoError when the body is read next
DownloadCheck(status, etagHeader, expectedEtag) ==
    LET etag == ExtractETag(etagHeader)
    IN  IF ~ResponseOk(status)
        THEN S3ClientError("Failed to download from S3", status, GetErrorCode(status))
        ELSE IF etag = <<>>
        THEN S3ClientError("ETag not found in response headers", 0, "")
        ELSE IF expectedEtag # <<>> /\ etag # expectedEtag
        THEN S3ClientError("ETag mismatch detected", 0, "ETAG_MISMATCH")
        ELSE NoError

\* null, where a number is expected
NoLength == -1

\* getContentLength(headers): the Content-Length header parsed, null when
\* there is none (<<>>); <<n>> is the header declaring n bytes
GetContentLength(header) == IF header = <<>> THEN NoLength ELSE Head(header)

\* the values of a number-or-null that count as false in a condition
Falsy(n) == n = NoLength \/ n = 0

\* download: the size check after the body was read
SizeCheck(contentLength, received) ==
    IF ~Falsy(contentLength) /\ received # contentLength
    THEN S3ClientError("Size mismatch", 0, "SIZE_MISMATCH")
    ELSE NoError

\* mutant: upload without the check of its data
UploadValidate_None(data) == NoError

\* upload: the data checked before anything else; NoError when it passes
UploadValidate(data) ==
    IF Len(data) = 0 THEN S3ClientError("Cannot upload empty data", 0, "")
    ELSE NoError

\* upload: the response checked
UploadCheck(status, etagHeader) ==
    IF status = 412
    THEN S3ClientError("Upload failed: ETag mismatch", 412, "PRECONDITION_FAILED")
    ELSE IF ~ResponseOk(status)
    THEN S3ClientError("Failed to upload to S3", status, GetErrorCode(status))
    ELSE IF ExtractETag(etagHeader) = <<>>
    THEN S3ClientError("ETag not found in response headers", 0, "")
    ELSE NoError

\* mutant: the If-Match header is never sent
IfMatchHeader_Never(ifMatch) == <<>>

\* upload: the If-Match header of the request, <<>> when none is set
IfMatchHeader(ifMatch) == IF ifMatch # <<>> THEN ifMatch ELSE <<>>

\* the store's answer to a PUT: 412 when an If-Match header names another tag
PutStatus(ifMatch, current) ==
    IF ifMatch # <<>> /\ ifMatch # <<current>> THEN 412 ELSE 200

\* the remote object: its entity tag and its content
Object(etag, data) == [etag |-> etag, data |-> data]

ErrorStatuses == {400, 403, 404, 500, 503}
TransientKinds == {"network", "5xx"}

StatusKind(status) ==
    IF status >= 500 THEN "5xx" ELSE IF status = 412 THEN "412" ELSE "4xx"

S3Off ==
    [op |-> "none", pc |-> "off", attempt |-> 0, ifMatch |-> <<>>, expectedEtag |-> <<>>,
     data |-> <<>>, dataLen |-> 0, aborted |-> FALSE, timer |-> FALSE,
     contentLength |-> NoLength,
     etag |-> <<>>, result |-> S3Pending,
     attempts |-> 0, delays |-> <<>>, lastErr |-> NoError, lastKind |-> "",
     nFailed |-> 0, allTransient |-> TRUE]

S3Idle ==
    /\ maxRetries = 0
    /\ s3 = [c \in S3Ids |-> S3Off]
    /\ store = Object(1, <<>>)

\* one client call, or two that overlap
S3Init ==
    /\ maxRetries \in 0..MaxRetriesBound
    /\ s3 \in {[c \in S3Ids |-> IF c = 1 THEN [S3Off EXCEPT !.pc = "idle"] ELSE S3Off],
               [c \in S3Ids |-> [S3Off EXCEPT !.pc = "idle"]]}
    /\ (\A c \in S3Ids : s3[c].pc = "idle") => maxRetries <= MaxConcRetries
    /\ store \in {Object(1, <<>>), Object(2, <<>>)}

\* calls are started in the order of their slots
S3CanStart(c) ==
    /\ s3[c].pc = "idle"
    /\ \A d \in S3Ids : d < c => s3[d].pc # "idle"

EtagOptions == {<<>>, <<1>>, <<2>>}

\* operation(): a new attempt; the timeout timer is armed and fetch is called
BeginAttempt(f) ==
    [f EXCEPT !.pc = "fetch", !.timer = TRUE, !.attempts = @ + 1]

\* the attempt threw raw (kind: what happened, for the record)
FailAttempt(f, raw, kind) ==
    LET e   == HandleError(raw)
        act == RetryAction(ShouldRetry(f.op), e, f.attempt, maxRetries)
    IN  [f EXCEPT !.timer = FALSE,
                  !.lastErr = e,
                  !.lastKind = kind,
                  !.nFailed = @ + 1,
                  !.allTransient = @ /\ kind \in TransientKinds,
                  !.pc = IF act = "throw" THEN "done" ELSE "backoff",
                  !.result = IF act = "throw" THEN S3Fail(e) ELSE @,
                  !.delays = IF act = "throw" THEN @ ELSE Append(@, BackoffDelay(f.attempt))]

\* download(url, {expectedEtag, signal}) is called; of two overlapping calls
\* at most one is a download
S3Download(c) ==
    /\ S3CanStart(c)
    /\ \A d \in S3Ids \ {c} : s3[d].op # "download"
    /\ \E exp \in EtagOptions, ab \in BOOLEAN :
        s3' = [s3 EXCEPT ![c] = BeginAttempt(
                 [@ EXCEPT !.op = "download", !.expectedEtag = exp, !.aborted = ab])]
    /\ UNCHANGED <<maxRetries, store, cryptoVars, vaultVars, apiVars>>

\* upload(url, data, {ifMatch, signal}) is called
S3Upload(c) ==
    /\ S3CanStart(c)
    /\ \E im \in EtagOptions, ab \in BOOLEAN, data \in {<<>>, <<c>>} :
        LET f == [s3[c] EXCEPT !.op = "upload", !.ifMatch = im, !.aborted = ab,
                               !.data = data, !.dataLen = Len(data)]
            e == UploadValidate(data)
        IN  s3' = [s3 EXCEPT ![c] =
                     IF e # NoError
                     THEN [f EXCEPT !.pc = "done", !.result = S3Fail(e)]
                     ELSE BeginAttempt(f)]
    /\ UNCHANGED <<maxRetries, store, cryptoVars, vaultVars, apiVars>>

\* mutant: one abort controller for all the calls of the client
S3SignalAbort_Shared(c) ==
    /\ s3[c].pc \in {"fetch", "body", "backoff"}
    /\ ~s3[c].aborted
    /\ s3' = [d \in S3Ids |-> IF s3[d].pc \in {"fetch", "body", "backoff"}
                              THEN [s3[d] EXCEPT !.aborted = TRUE] ELSE s3[d]]
    /\ UNCHANGED <<maxRetries, store, cryptoVars, vaultVars, apiVars>>

\* the caller's signal aborts
S3SignalAbort(c) ==
    /\ s3[c].pc \in {"fetch", "body", "backoff"}
    /\ ~s3[c].aborted
    /\ s3' = [s3 EXCEPT ![c].aborted = TRUE]
    /\ UNCHANGED <<maxRetries, store, cryptoVars, vaultVars, apiVars>>

\* the combined signal being aborted, fetch (or the body read) rejects
S3Aborted(c) ==
    /\ s3[c].pc \in {"fetch", "body"}
    /\ s3[c].aborted
    /\ s3' = [s3 EXCEPT ![c] = FailAttempt(@, AbortError, "user-abort")]
    /\ UNCHANGED <<maxRetries, store, cryptoVars, vaultVars, apiVars>>

\* the timeout timer fires: the combined signal aborts and fetch rejects
S3Timeout(c) ==
    /\ s3[c].pc = "fetch"
    /\ s3[c].timer
    /\ ~s3[c].aborted
    /\ s3' = [s3 EXCEPT ![c] = FailAttempt(@, AbortError, "timeout")]
    /\ UNCHANGED <<maxRetries, store, cryptoVars, vaultVars, apiVars>>

\* fetch rejects: no connection
S3FetchFails(c) ==
    /\ s3[c].pc = "fetch"
    /\ ~s3[c].aborted
    /\ \E m \in {"Failed to fetch", "fetch failed"} :
        s3' = [s3 EXCEPT ![c] = FailAttempt(@, FetchError(m), "network")]
    /\ UNCHANGED <<maxRetries, store, cryptoVars, vaultVars, apiVars>>

\* GET: the response headers arrive
S3GetResponds(c) ==
    /\ s3[c].pc = "fetch"
    /\ s3[c].op = "download"
    /\ ~s3[c].aborted
    /\ \E status \in ErrorStatuses \cup {200}, hasEtag \in BOOLEAN,
          cl \in {<<>>} \cup {<<n>> : n \in 0..MaxBodyLen} :
        LET hdr == IF hasEtag THEN ETagHeader(store.etag) ELSE <<>>
            e   == DownloadCheck(status, hdr, s3[c].expectedEtag)
        IN  /\ status # 200 => (hasEtag /\ cl = <<>>)
            /\ s3' = [s3 EXCEPT ![c] =
                 IF e = NoError
                 THEN [@ EXCEPT !.pc = "body", !.timer = FALSE,
                                !.etag = ExtractETag(hdr),
                                !.contentLength = GetContentLength(cl)]
                 ELSE FailAttempt([@ EXCEPT !.etag = IF ResponseOk(status)
                                                     THEN ExtractETag(hdr) ELSE @],
                                  e, IF ResponseOk(status) THEN "check" ELSE StatusKind(status))]
    /\ UNCHANGED <<maxRetries, store, cryptoVars, vaultVars, apiVars>>

\* GET: the body has been read
S3BodyRead(c) ==
    /\ s3[c].pc = "body"
    /\ ~s3[c].aborted
    /\ \E received \in 0..MaxBodyLen :
        LET e == SizeCheck(s3[c].contentLength, received)
        IN  s3' = [s3 EXCEPT ![c] =
                 IF e = NoError
                 THEN [@ EXCEPT !.pc = "done", !.result = S3Ok(s3[c].etag, received)]
                 ELSE FailAttempt(@, e, "check")]
    /\ UNCHANGED <<maxRetries, store, cryptoVars, vaultVars, apiVars>>

\* GET: the connection breaks while the body is read
S3BodyFails(c) ==
    /\ s3[c].pc = "body"
    /\ ~s3[c].aborted
    /\ s3' = [s3 EXCEPT ![c] = FailAttempt(@, FetchError("Failed to fetch"), "network")]
    /\ UNCHANGED <<maxRetries, store, cryptoVars, vaultVars, apiVars>>

\* PUT: the store applies or refuses the write and answers
S3PutResponds(c) ==
    /\ s3[c].pc = "fetch"
    /\ s3[c].op = "upload"
    /\ ~s3[c].aborted
    /\ \E status \in ErrorStatuses \cup {PutStatus(IfMatchHeader(s3[c].ifMatch), store.etag)},
          hasEtag \in BOOLEAN :
        LET new == IF status = 200 THEN Object(store.etag + 1, s3[c].data) ELSE store
            hdr == IF hasEtag THEN ETagHeader(new.etag) ELSE <<>>
            e   == UploadCheck(status, hdr)
        IN  /\ status # 200 => hasEtag
            /\ store' = new
            /\ s3' = [s3 EXCEPT ![c] =
                 IF e = NoError
                 THEN [@ EXCEPT !.pc = "done", !.timer = FALSE,
                                !.result = S3Ok(ExtractETag(hdr), 0)]
                 ELSE FailAttempt(@, e, IF ResponseOk(status) THEN "check" ELSE StatusKind(status))]
    /\ UNCHANGED <<maxRetries, cryptoVars, vaultVars, apiVars>>

\* the backoff delay has elapsed: the loop's next round
S3BackoffElapsed(c) ==
    /\ s3[c].pc = "backoff"
    /\ s3' = [s3 EXCEPT ![c] = BeginAttempt([@ EXCEPT !.attempt = @ + 1])]
    /\ UNCHANGED <<maxRetries, store, cryptoVars, vaultVars, apiVars>>

S3Next ==
    \E c \in S3Ids :
        \/ S3Download(c)
        \/ S3Upload(c)
        \/ S3SignalAbort(c)
        \/ S3Aborted(c)
        \/ S3Timeout(c)
        \/ S3FetchFails(c)
        \/ S3GetResponds(c)
        \/ S3BodyRead(c)
        \/ S3BodyFails(c)
        \/ S3PutResponds(c)
        \/ S3BackoffElapsed(c)

(***************************************************************************)
(* Vault API: the handler of POST /vaults/{key}, which issues pre-signed   *)
(* URLs, and clients that write through these URLs.  Handler invocations   *)
(* are separate processes: they interleave at their requests to the store. *)
(***************************************************************************)
MAX_VAULTS == 5

MaxClients == 2
ApiClients == 1..MaxClients

\* the vault keys clients ask for: one more than the limit allows
VaultKeys == 1..(MAX_VAULTS + 1)

\* no object under a key
NoObject == Object(NULL, <<>>)

\* ETag?.replace(/"/g, "")
StripQuotes(header) == SelectSeq(header, LAMBDA x : x # Quote)

\* getVaultUrls: the etag read with HeadObject, <<>> for null (NotFound, or
\* an empty tag)
HeadETag(b, k) ==
    IF b[k] = NoObject THEN <<>> ELSE StripQuotes(ETagHeader(b[k].etag))

\* ListObjectsV2 under the vaults/ prefix: KeyCount
KeyCount(b) == Cardinality({k \in VaultKeys : b[k] # NoObject})

\* getVaultUrls: the limit test made for a key without an object
LimitReached(count) == count >= MAX_VAULTS

\* a client: the key it asked for, the etag and the PUT URL of the response
\* (putUrl: the key it is signed for), the result of its upload, and the
\* object its upload replaced (history)
ApiOff ==
    [pc |-> "idle", key |-> NULL, etag |-> <<>>, putUrl |-> NULL, status |-> 0,
     result |-> S3Pending, replaced |-> NoObject]

\* nobody uses the API
ApiIdle ==
    /\ bucket = [k \in VaultKeys |-> NoObject]
    /\ api = [i \in ApiClients |-> ApiOff]

\* a bucket holding some vaults, none above the limit
ApiInit ==
    /\ \E n \in 0..MAX_VAULTS :
         bucket = [k \in VaultKeys |-> IF k <= n THEN Object(1, <<0>>) ELSE NoObject]
    /\ api = [i \in ApiClients |-> ApiOff]

\* getVaultUrls is invoked for a key: HeadObject answers; for an existing
\* object the URLs are signed and returned with its etag
ApiHead(i) ==
    /\ api[i].pc = "idle"
    /\ \E k \in VaultKeys :
        LET etag == HeadETag(bucket, k)
        IN  api' = [api EXCEPT ![i] =
                      IF etag = <<>>
                      THEN [@ EXCEPT !.pc = "list", !.key = k]
                      ELSE [@ EXCEPT !.pc = "issued", !.key = k, !.etag = etag,
                                     !.putUrl = k, !.status = 200]]
    /\ UNCHANGED <<bucket, cryptoVars, vaultVars, s3Vars>>

\* getVaultUrls, no object under the key: ListObjectsV2 answers; 403 at the
\* limit, otherwise the URLs are signed and returned with etag null
ApiList(i) ==
    /\ api[i].pc = "list"
    /\ api' = [api EXCEPT ![i] =
                 IF LimitReached(KeyCount(bucket))
                 THEN [@ EXCEPT !.pc = "refused", !.status = 403]
                 ELSE [@ EXCEPT !.pc = "issued", !.putUrl = api[i].key, !.status = 200]]
    /\ UNCHANGED <<bucket, cryptoVars, vaultVars, s3Vars>>

\* the client uploads through its PUT URL, with ifMatch when the response
\* carried an etag; the store applies or refuses the write
ApiUpload(i) ==
    /\ api[i].pc = "issued"
    /\ LET k      == api[i].putUrl
           status == PutStatus(IfMatchHeader(api[i].etag), bucket[k].etag)
           new    == IF status = 200 THEN Object(bucket[k].etag + 1, <<i>>) ELSE bucket[k]
           hdr    == ETagHeader(new.etag)
           e      == UploadCheck(status, hdr)
       IN  /\ bucket' = [bucket EXCEPT ![k] = new]
           /\ api' = [api EXCEPT ![i] =
                        [@ EXCEPT !.pc = "done", !.replaced = bucket[k],
                                  !.result = IF e = NoError THEN S3Ok(ExtractETag(hdr), 0)
                                             ELSE S3Fail(e)]]
    /\ UNCHANGED <<cryptoVars, vaultVars, s3Vars>>

\* the URLs expire unused (URL_EXPIRATION seconds after they were signed)
ApiUrlExpires(i) ==
    /\ api[i].pc = "issued"
    /\ api' = [api EXCEPT ![i].pc = "expired"]
    /\ UNCHANGED <<bucket, cryptoVars, vaultVars, s3Vars>>

ApiNext ==
    \E i \in ApiClients :
        \/ ApiHead(i)
        \/ ApiList(i)
        \/ ApiUpload(i)
        \/ ApiUrlExpires(i)

CryptoNext ==
    CEncrypt \/ CTamper \/ CTruncate \/ CSetVersion \/ CDecrypt \/ CExtractSalt \/ CUnlock

InitCrypto == CryptoIdle /\ VaultUnused /\ S3Idle /\ ApiIdle

SpecCrypto == InitCrypto /\ [][CryptoNext]_vars

(***************************************************************************)
(* Claims about the S3Client retry loop (checked under SpecS3)             *)
(***************************************************************************)

\* C6: when the caller's cancellation signal aborts a download or an upload,
\* the call fails without a further attempt and without a backoff delay.
\* Stated as: once an attempt was ended by the caller's signal, the call is over.
C6_CancelledNeverRetried ==
    \A c \in S3Ids : s3[c].lastKind = "user-abort" => s3[c].pc = "done"

\* C7: a download whose every attempt fails with a transient error (network
\* error or 5xx) makes exactly maxRetries + 1 attempts, waits between them
\* only, and then surfaces the error of the last attempt.
C7_DownloadExhaustsRetries ==
    \A c \in S3Ids :
        (/\ s3[c].op = "download"
         /\ s3[c].pc = "done"
         /\ ~s3[c].result.ok
         /\ s3[c].allTransient)
        => /\ s3[c].attempts = maxRetries + 1
           /\ Len(s3[c].delays) = maxRetries
           /\ s3[c].lastKind \in TransientKinds
           /\ s3[c].result.err = s3[c].lastErr

C7_Witness ==
    \E c \in S3Ids :
        /\ s3[c].op = "download" /\ s3[c].pc = "done" /\ ~s3[c].result.ok
        /\ s3[c].allTransient
        /\ maxRetries = DefaultMaxRetries
        /\ s3[c].attempts = DefaultMaxRetries + 1
        /\ s3[c].result.err.statusCode = 503

\* C8: a persistently failing upload (transient errors only) makes exactly
\* maxRetries + 1 attempts before its error is surfaced.
C8_UploadExhaustsRetries ==
    \A c \in S3Ids :
        (/\ s3[c].op = "upload"
         /\ s3[c].pc = "done"
         /\ ~s3[c].result.ok
         /\ s3[c].nFailed > 0
         /\ s3[c].allTransient)
        => s3[c].attempts = maxRetries + 1

\* C9: an upload whose If-Match tag is not the store's current tag, answered
\* 412 by the store, fails with the precondition-failed error after exactly
\* one attempt, with no retry and no backoff delay.
C9_StaleIfMatchFailsOnce ==
    \A c \in S3Ids :
        (s3[c].op = "upload" /\ s3[c].lastKind = "412")
        => /\ s3[c].pc = "done"
           /\ ~s3[c].result.ok
           /\ s3[c].result.err.code = "PRECONDITION_FAILED"
           /\ s3[c].result.err.statusCode = 412
           /\ s3[c].attempts = 1
           /\ s3[c].delays = <<>>

C9_Witness ==
    \E c \in S3Ids :
        /\ s3[c].op = "upload" /\ s3[c].lastKind = "412" /\ s3[c].pc = "done"
        /\ s3[c].ifMatch # <<>> /\ s3[c].ifMatch # <<store.etag>>
        /\ maxRetries > 0

\* C10: a download or upload attempt answered 403 or 404 ends the call with
\* that error at once: no backoff delay and no further request; answered so
\* on its first attempt, the call has made exactly one attempt.
C10_DeniedOrMissingFailsOnce ==
    \A c \in S3Ids :
        (s3[c].lastErr.statusCode \in {403, 404})
        => /\ s3[c].pc = "done"
           /\ s3[c].result = S3Fail(s3[c].lastErr)
           /\ Len(s3[c].delays) = s3[c].nFailed - 1
           /\ s3[c].attempts = s3[c].nFailed
           /\ (s3[c].nFailed = 1 => s3[c].attempts = 1 /\ s3[c].delays = <<>>)

C10_Witness ==
    /\ maxRetries > 0
    /\ \E c \in S3Ids :
        /\ s3[c].op = "download" /\ s3[c].pc = "done"
        /\ s3[c].lastErr.statusCode = 404 /\ s3[c].attempts = 1

\* C11: a download given expectedEtag whose response carries another tag
\* (quotes removed) fails with the ETAG_MISMATCH error, with no retry after
\* that attempt and no data returned; the tag check fails in no other case,
\* and a download given expectedEtag never returns data under another tag.
C11_EtagMismatchFailsOnce ==
    \A c \in S3Ids :
        s3[c].op = "download"
        => /\ s3[c].lastErr.code = "ETAG_MISMATCH"
                => /\ s3[c].expectedEtag # <<>>
                   /\ s3[c].etag # s3[c].expectedEtag
                   /\ s3[c].pc = "done"
                   /\ s3[c].result = S3Fail(s3[c].lastErr)
                   /\ s3[c].attempts = s3[c].nFailed
                   /\ Len(s3[c].delays) = s3[c].nFailed - 1
           /\ (s3[c].pc \in {"body", "done"} /\ s3[c].lastErr.code # "ETAG_MISMATCH"
               /\ s3[c].etag # <<>> /\ s3[c].expectedEtag # <<>>)
                => s3[c].etag = s3[c].expectedEtag
           /\ (s3[c].result.ok /\ s3[c].expectedEtag # <<>>)
                => s3[c].result.etag = s3[c].expectedEtag

C11_Witness ==
    /\ maxRetries > 0
    /\ \E c \in S3Ids :
        /\ s3[c].op = "download" /\ s3[c].pc = "done"
        /\ s3[c].expectedEtag = <<1>> /\ s3[c].etag = <<2>>
        /\ s3[c].result.err.code = "ETAG_MISMATCH"
        /\ s3[c].attempts = 1 /\ s3[c].delays = <<>>

\* the failures of an upload that are not the store's verdict on If-Match
TransportKinds == {"network", "timeout", "user-abort", "4xx", "5xx"}

\* C12: of two uploads carrying the same If-Match tag, in every interleaving
\* at most one succeeds; once one has succeeded the stored object is its data
\* and the other upload fails, with the PRECONDITION_FAILED error after one
\* attempt whenever the store answered its request.
C12_OneWriterWins ==
    \A c, d \in S3Ids :
        (/\ c # d
         /\ s3[c].op = "upload" /\ s3[d].op = "upload"
         /\ s3[c].ifMatch # <<>> /\ s3[c].ifMatch = s3[d].ifMatch
         /\ s3[c].result.ok)
        => /\ ~s3[d].result.ok
           /\ store.data = s3[c].data
           /\ <<store.etag>> = s3[c].result.etag
           /\ (s3[d].pc = "done" /\ s3[d].dataLen > 0 /\ s3[d].lastKind \notin TransportKinds)
                => /\ s3[d].result.err.code = "PRECONDITION_FAILED"
                   /\ s3[d].attempts = 1

C12_Witness ==
    \E c, d \in S3Ids :
        /\ c # d
        /\ s3[c].op = "upload" /\ s3[d].op = "upload"
        /\ s3[c].ifMatch # <<>> /\ s3[c].ifMatch = s3[d].ifMatch
        /\ s3[c].result.ok
        /\ s3[d].pc = "done" /\ s3[d].result.err.code = "PRECONDITION_FAILED"
        /\ store.data = s3[c].data /\ store.data # s3[d].data

\* C13: whatever content length the response declares, a download never
\* returns data whose length differs from it: a download that succeeded on a
\* response declaring a content length returned exactly that many bytes.
C13_SizeMismatchAlwaysFails ==
    \A c \in S3Ids :
        (/\ s3[c].op = "download"
         /\ s3[c].result.ok
         /\ s3[c].contentLength # NoLength)
        => s3[c].result.len = s3[c].contentLength

\* C14: every attempt runs under the timeout for its whole duration: as long
\* as a transfer is in flight (the request, or the reading of the response
\* body) the timeout timer of the attempt is armed.
C14_TimeoutCoversWholeAttempt ==
    \A c \in S3Ids : s3[c].pc \in {"fetch", "body"} => s3[c].timer

\* C30: upload with empty data fails at once with the validation error and
\* makes no request attempt: no attempt is counted, no timer is armed, no
\* backoff delay is waited, whatever maxRetries is.
C30_EmptyUploadFailsAtOnce ==
    \A c \in S3Ids :
        (s3[c].op = "upload" /\ s3[c].data = <<>>)
        => /\ s3[c].pc = "done"
           /\ s3[c].result = S3Fail(S3ClientError("Cannot upload empty data", 0, ""))
           /\ s3[c].attempts = 0
           /\ s3[c].nFailed = 0
           /\ ~s3[c].timer
           /\ s3[c].delays = <<>>

C30_Witness ==
    /\ maxRetries = DefaultMaxRetries
    /\ \E c \in S3Ids :
        /\ s3[c].op = "upload" /\ s3[c].data = <<>> /\ s3[c].pc = "done"
        /\ s3[c].result.err.message = "Cannot upload empty data"
        /\ s3[c].attempts = 0

\* C31: calls on one client are independent: a step of one call (a failure,
\* a retry, a timeout, a cancellation, a response) changes nothing of another
\* call: not its attempt counter, its timer, its abort state, its delays or
\* its result; and the client's configuration never changes.
C31_CallsIndependent ==
    [][/\ maxRetries' = maxRetries
       /\ \A c, d \in S3Ids : (c # d /\ s3'[c] # s3[c]) => s3'[d] = s3[d]]_vars

\* a download that failed, waited and is at its second attempt (or was
\* cancelled) next to an upload that succeeded at its first attempt
C31_Witness ==
    \E c, d \in S3Ids :
        /\ c # d
        /\ s3[c].op = "download" /\ s3[c].pc \in {"fetch", "backoff"}
        /\ s3[c].nFailed = 1 /\ s3[c].aborted
        /\ s3[d].op = "upload" /\ s3[d].result.ok
        /\ s3[d].attempts = 1 /\ s3[d].delays = <<>> /\ ~s3[d].aborted

\* C32: in every reachable state of a VaultManager, the states in which a
\* call is suspended at key derivation included, the key and the salt are
\* either both held or both absent.
C32_KeyAndSaltTogether ==
    (derivedKey = NULL) <=> (salt = NULL)

\* C33: every derived-key buffer is overwritten with zeros before the session
\* stops referencing it: whenever a step replaces or drops the key the
\* session held, the bytes of that buffer are all zeros after the step.
C33_KeyZeroedBeforeRelease ==
    [][(derivedKey # NULL /\ derivedKey' # derivedKey)
       => IsZeroed(heap'[derivedKey])]_vars

\* C34: before the retry that follows failed attempt number k (k = 0 for the
\* first attempt) the client waits exactly retryDelay * 2^k milliseconds; no
\* wait precedes the first attempt and none follows the final one: a call
\* that made n attempts has waited n - 1 times (n times while it is waiting
\* for its next attempt).
C34_ExponentialBackoff ==
    \A c \in S3Ids :
        /\ \A k \in 0..(Len(s3[c].delays) - 1) :
               s3[c].delays[k + 1] = DefaultRetryDelay * Pow2(k)
        /\ s3[c].attempts = 0 => s3[c].delays = <<>>
        /\ s3[c].attempts > 0 =>
               Len(s3[c].delays) = IF s3[c].pc = "backoff" THEN s3[c].attempts
                                   ELSE s3[c].attempts - 1
        /\ s3[c].attempt = Len(s3[c].delays) - (IF s3[c].pc = "backoff" THEN 1 ELSE 0)

\* a download that failed four times with the default configuration
C34_Witness ==
    /\ maxRetries = DefaultMaxRetries
    /\ \E c \in S3Ids :
        /\ s3[c].pc = "done" /\ ~s3[c].result.ok
        /\ s3[c].attempts = 4
        /\ s3[c].delays = <<1000, 2000, 4000>>

\* the failures of an attempt after which a retry is in order
RetriableKinds == {"network", "timeout", "5xx"}

\* C35: a failed download attempt is retried only if it failed with a network
\* error, a timeout or a 5xx response: a download waiting for its next
\* attempt has just failed in one of these ways, and every other failure has
\* ended the call with that error.
C35_OnlyTransientRetried ==
    \A c \in S3Ids :
        (s3[c].op = "download" /\ s3[c].nFailed > 0)
        => /\ s3[c].pc = "backoff" => s3[c].lastKind \in RetriableKinds
           /\ (s3[c].nFailed = 1 /\ s3[c].lastKind \notin RetriableKinds)
                => (s3[c].pc = "done" /\ s3[c].result = S3Fail(s3[c].lastErr))

\* the call that just returned was the only call in flight and something
\* else ran on the manager while it was suspended: that can only be lock()
LockedWhileSuspended ==
    /\ ~Overlapping
    /\ last.op \in {"create", "unlock", "save", "changePassword"}
    /\ last.phase = "return"
    /\ last.stage \in {"deriveKey", "deriveKey2", "decrypt", "encrypt", "done"}
    /\ ~last.alone

\* C37: lock() is final for the calls in flight: if lock() ran while a
\* create, unlock, save or changePassword call was suspended at key
\* derivation, then once that call is over (no other call started)
\* isUnlocked() is false and the session holds neither a key nor a salt.
C37_LockIsFinal ==
    LockedWhileSuspended
    => /\ ~IsUnlocked
       /\ derivedKey = NULL
       /\ GetSalt = NULL

\* the key a blob made by encrypt was encrypted under (read off its tag)
KeyOf(blob) == blob[TagPos][1]

\* C38: every blob returned by create, save, update or changePassword carries
\* in its salt field the salt from which the key that encrypted it was
\* derived, so that unlock with the same password succeeds: some valid
\* password and the blob's salt field derive the blob's key, that password
\* opens the blob, and for create and save it is the password of the call;
\* also when other calls ran on the manager while the call was suspended.
C38_BlobSaltDerivesItsKey ==
    ProducedBlob
    => /\ \E pw \in ValidPasswords :
            /\ DeriveKey(pw, Some(SaltOf(last.out))) = Ok(KeyOf(last.out))
            /\ Opens(last.out, pw).ok
       /\ last.op \in {"create", "save"} => Opens(last.out, last.pw) = Ok(last.data)
       /\ last.op = "changePassword" => Opens(last.out, last.newPw).ok

\* C39: a salt array obtained from getSalt() keeps its value afterwards: no
\* step of any call modifies the bytes of the array getSalt() returned
\* before the step (as long as the array exists).
C39_ReturnedSaltKeepsValue ==
    [][(GetSalt # NULL /\ heap'[GetSalt] # Freed)
       => heap'[GetSalt] = heap[GetSalt]]_vars

\* C36: conflict detection prevents data loss for every write: a successful
\* upload never replaces an object version the uploading client had not
\* observed; the object it replaced is the one whose etag the URL service
\* returned to it, and no object at all when the service returned etag null
\* (the upload then carrying no ifMatch).
C36_NoUnobservedVersionReplaced ==
    \A i \in ApiClients :
        (api[i].pc = "done" /\ api[i].result.ok)
        => IF api[i].etag = <<>> THEN api[i].replaced = NoObject
           ELSE <<api[i].replaced.etag>> = api[i].etag

\* C40: when every write goes through a URL issued by getVaultUrls, the
\* number of objects under the vaults/ prefix never exceeds MAX_VAULTS, in
\* every interleaving of URL requests and uploads; only requests for a key
\* without an object are refused (403), and none is refused below the limit.
C40_VaultLimitHolds ==
    /\ KeyCount(bucket) <= MAX_VAULTS
    /\ \A i \in ApiClients :
        /\ api[i].pc = "refused"
             => (api[i].status = 403 /\ api[i].etag = <<>> /\ KeyCount(bucket) >= MAX_VAULTS)
        /\ (api[i].pc = "issued" /\ api[i].etag # <<>>) => bucket[api[i].key] # NoObject

VaultNext ==
    \/ \E c \in CallIds :
        \/ VCreate(c)
        \/ VCreateResume(c)
        \/ VUnlock(c)
        \/ VUnlockResume(c)
        \/ VSave(c)
        \/ VSaveResume(c)
        \/ VChangePassword(c)
        \/ VChangePasswordUnlocked(c)
        \/ VChangePasswordDerive(c)
        \/ VChangePasswordResume(c)
        \/ VUpdate(c)
    \/ VLock

InitVault == CryptoIdle /\ VaultIdle /\ S3Idle /\ ApiIdle

SpecVault == InitVault /\ [][VaultNext]_vars

InitVaultSeq == CryptoIdle /\ VaultSeqIdle /\ S3Idle /\ ApiIdle

SpecVaultSeq == InitVaultSeq /\ [][VaultNext]_vars

InitS3 == CryptoIdle /\ VaultUnused /\ S3Init /\ ApiIdle

SpecS3 == InitS3 /\ [][S3Next]_vars

InitApi == CryptoIdle /\ VaultUnused /\ S3Idle /\ ApiInit

SpecApi == InitApi /\ [][ApiNext]_vars

====
